---- MODULE Spec2Model ----
(***************************************************************************)
(* sidecred: the reconciliation loop Sidecred.Process over the State       *)
(* ledger (provider-entries of resources, store-entries of secrets), the   *)
(* configuration it validates, and the Load -> Process -> Save cycle.      *)
(* Provider.Create, Store.Write, Provider.Destroy and Store.Delete are     *)
(* external collaborators: every call is one step whose result is chosen   *)
(* nondeterministically, and is appended to the call log `calls`.          *)
(***************************************************************************)
EXTENDS Integers, Sequences, FiniteSets, TLC

VARIABLES
    state,      \* *State: [Providers, Stores]
    config,     \* the Config passed to Process
    providers,  \* Sidecred.providers: the registered ProviderTypes
    stores,     \* Sidecred.stores: the registered StoreTypes
    now,        \* time.Now(), in ticks
    pc,         \* position of the run: idle, request, write, sweep, orphans, done
    err,        \* the error Process returned ("" is nil)
    ri,         \* index of the CredentialsMap of the request loop
    ci,         \* index of the CredentialRequest of the credential loop
    creds,      \* credentials of the last Create still to be written
    pi,         \* index of the provider-entry of the resource sweep
    i,          \* index i of the reverse loop over ps.Resources
    si,         \* index of the store-entry of the orphan sweep
    orphans,    \* orphans[0..i] still to be visited by the orphan sweep
    calls,      \* the calls made to providers and stores in this run, in order
    loaded,     \* the state as it was handed to Process
    runs,       \* the number of runs started so far
    cancelled,  \* ctx.Done() of the context passed to Process is closed
    outage,     \* Provider.Destroy and Store.Delete return an error for now
    again,      \* "no", or how the run went that this run repeats at once:
                \* "clean" when each of its Creates returned credentials,
                \* "failed" otherwise
    earlier,    \* <<>>, or the one record [calls, state, err] of the run
                \* that this run repeats from a copy of the same input
    input,      \* <<>>, or the function of the packages under test and the
                \* arguments it is called with
    output,     \* <<>>, or the one value that call returned
    object,     \* <<>>, or the one object the state backend under test
                \* keeps at the path of the state
    apps        \* Rotator.apps: the list of apps, head first

vars == <<state, config, providers, stores, now, pc, err, ri, ci, creds,
          pi, i, si, orphans, calls, loaded, runs, cancelled, outage,
          again, earlier, input, output, object, apps>>

----------------------------------------------------------------------------
(* Bounds of the model *)

\* The clock stops advancing at MaxNow.
MaxNow == 2

\* The number of Load-Process-Save cycles of a behaviour.
MaxRuns == 2

----------------------------------------------------------------------------
(* Types and pure helpers of package sidecred *)

\* The global rotation window handed to sidecred.New (ticks).
rotationWindow == 2

\* CredentialType.Provider
Provider(c) ==
    CASE c = "random" -> "random"
      [] c = "aws:sts" -> "aws"
      [] c \in {"github:deploy-key", "github:access-token"} -> "github"
      [] c = "artifactory:access-token" -> "artifactory"
      [] OTHER -> c

\* StoreConfig.Alias
Alias(c) == IF c.Name # "" THEN c.Name ELSE c.Type

\* json.Unmarshal of a config: the byte forms of the model and the value each
\* decodes to. "{k:1}" and "{ k:1 }" are two encodings of one value, "{k:2}"
\* is another value, and the empty message does not decode.
Unmarshal(b) ==
    CASE b = "{k:1}" -> [ok |-> TRUE, v |-> "k=1"]
      [] b = "{ k:1 }" -> [ok |-> TRUE, v |-> "k=1"]
      [] b = "{k:2}" -> [ok |-> TRUE, v |-> "k=2"]
      [] OTHER -> [ok |-> FALSE, v |-> ""]

\* isEqualConfig
isEqualConfig(b1, b2) ==
    IF b1 = "" /\ b2 = "" THEN TRUE
    ELSE IF ~Unmarshal(b1).ok THEN FALSE
    ELSE IF ~Unmarshal(b2).ok THEN FALSE
    ELSE Unmarshal(b1).v = Unmarshal(b2).v

\* hasValidCredentials with the two configs compared byte for byte.
hasValidCredentialsBytes(r, resource, window, t) ==
    IF resource.Deposed THEN FALSE
    ELSE IF r.Name # resource.ID THEN FALSE
    ELSE IF r.Config # resource.Config THEN FALSE
    ELSE LET rotation == IF r.RotationWindow # <<>> THEN r.RotationWindow[1]
                         ELSE window
         IN  IF resource.Expiration - rotation < t THEN FALSE ELSE TRUE

\* hasValidCredentials without the test of the Expiration.
hasValidCredentialsForever(r, resource, window, t) ==
    IF resource.Deposed THEN FALSE
    ELSE IF r.Name # resource.ID THEN FALSE
    ELSE IF ~isEqualConfig(r.Config, resource.Config) THEN FALSE
    ELSE TRUE

\* hasValidCredentials without the test of the Config.
hasValidCredentialsAnyConfig(r, resource, window, t) ==
    IF resource.Deposed THEN FALSE
    ELSE IF r.Name # resource.ID THEN FALSE
    ELSE LET rotation == IF r.RotationWindow # <<>> THEN r.RotationWindow[1]
                         ELSE window
         IN  IF resource.Expiration - rotation < t THEN FALSE ELSE TRUE

\* hasValidCredentials with the global window for every request.
hasValidCredentialsGlobal(r, resource, window, t) ==
    IF resource.Deposed THEN FALSE
    ELSE IF r.Name # resource.ID THEN FALSE
    ELSE IF ~isEqualConfig(r.Config, resource.Config) THEN FALSE
    ELSE IF resource.Expiration - window < t THEN FALSE ELSE TRUE

\* The RotationWindow of a request is optional: <<>> is nil, <<d>> is d.
\* CredentialRequest.hasValidCredentials, at the time t of the call.
hasValidCredentials(r, resource, window, t) ==
    IF resource.Deposed THEN FALSE
    ELSE IF r.Name # resource.ID THEN FALSE
    ELSE IF ~isEqualConfig(r.Config, resource.Config) THEN FALSE
    ELSE LET rotation == IF r.RotationWindow # <<>> THEN r.RotationWindow[1]
                         ELSE window
         IN  IF resource.Expiration - rotation < t THEN FALSE ELSE TRUE

\* newResource that does not keep the Config of the request.
newResourceNoConfig(request, store, expiration) ==
    [Type |-> request.Type, ID |-> request.Name, Store |-> store,
     Config |-> "", Expiration |-> expiration,
     Deposed |-> FALSE, InUse |-> TRUE]

\* newResource
newResource(request, store, expiration) ==
    [Type |-> request.Type, ID |-> request.Name, Store |-> store,
     Config |-> request.Config, Expiration |-> expiration,
     Deposed |-> FALSE, InUse |-> TRUE]

\* newSecret
newSecret(resourceID, path, expiration) ==
    [ResourceID |-> resourceID, Path |-> path, Expiration |-> expiration]

\* BuildSecretTemplate with the stores' default template
\* "{{ .Namespace }}.{{ .Name }}".
BuildSecretTemplate(namespace, name) == namespace \o "." \o name

----------------------------------------------------------------------------
(* State and its operations *)

\* NewState
NewState == [Providers |-> <<>>, Stores |-> <<>>]

\* append(seq[:k-1], seq[k+1:]...): the sequence without its k-th element.
RemoveAt(seq, k) == [j \in 1..(Len(seq) - 1) |-> IF j < k THEN seq[j] ELSE seq[j + 1]]

\* The first index of a sequence of truth values that is true, 0 when there
\* is none: where a range loop that returns at its first match stops.
FirstIndex(hits) ==
    IF \E j \in 1..Len(hits) : hits[j]
    THEN CHOOSE j \in 1..Len(hits) : hits[j] /\ \A h \in 1..(j - 1) : ~hits[h]
    ELSE 0

\* The last index that is true, 0 when there is none: what a range loop that
\* assigns at every match ends with.
LastIndex(hits) ==
    IF \E j \in 1..Len(hits) : hits[j]
    THEN CHOOSE j \in 1..Len(hits) : hits[j] /\ \A h \in (j + 1)..Len(hits) : ~hits[h]
    ELSE 0

\* The key comparison without the store alias.
SameKeyAnyStore(res, t, store, id) == res.Type = t /\ res.ID = id

\* The identity key comparison used by AddResource, GetResourcesByID and
\* RemoveResource.
SameKey(res, t, store, id) == res.Type = t /\ res.Store = store /\ res.ID = id

\* State.getProviderState: the index of the first provider-entry of type t.
getProviderState(s, t) ==
    LET IsT(p) == p.Type = t IN FirstIndex([h \in 1..Len(s.Providers) |-> IsT(s.Providers[h])])

\* AddResource that appends the row and leaves the rows of its key as they are.
AddResourceAppend(s, resource) ==
    LET IsT(p) == p.Type = Provider(resource.Type)
        found == LastIndex([h \in 1..Len(s.Providers) |-> IsT(s.Providers[h])])
        provs == IF found = 0
                 THEN Append(s.Providers,
                             [Type |-> Provider(resource.Type), Resources |-> <<>>])
                 ELSE s.Providers
        idx == IF found = 0 THEN Len(provs) ELSE found
    IN  [s EXCEPT !.Providers =
            [provs EXCEPT ![idx].Resources = Append(@, resource)]]

\* State.AddResource: the entry is the last one of the resource's provider
\* type (appended when there is none); rows of the same key become deposed.
AddResource(s, resource) ==
    LET IsT(p) == p.Type = Provider(resource.Type)
        found == LastIndex([h \in 1..Len(s.Providers) |-> IsT(s.Providers[h])])
        provs == IF found = 0
                 THEN Append(s.Providers,
                             [Type |-> Provider(resource.Type), Resources |-> <<>>])
                 ELSE s.Providers
        idx == IF found = 0 THEN Len(provs) ELSE found
        old == provs[idx].Resources
        deposed == [j \in 1..Len(old) |->
                      IF SameKey(old[j], resource.Type, resource.Store, resource.ID)
                      THEN [old[j] EXCEPT !.Deposed = TRUE]
                      ELSE old[j]]
    IN  [s EXCEPT !.Providers =
            [provs EXCEPT ![idx].Resources = Append(deposed, resource)]]

\* State.GetResourcesByID, the list it returns.
GetResourcesByID(s, t, id, store) ==
    LET idx == getProviderState(s, Provider(t))
        Match(r) == SameKey(r, t, store, id)
    IN  IF idx = 0 THEN <<>>
        ELSE SelectSeq(s.Providers[idx].Resources, Match)

\* GetResourcesByID that marks nothing.
MarkInUseNone(s, t, id, store) == s

\* State.GetResourcesByID, its effect on the state: the rows it returns are
\* marked as being in use.
MarkInUse(s, t, id, store) ==
    LET idx == getProviderState(s, Provider(t))
    IN  IF idx = 0 THEN s
        ELSE [s EXCEPT !.Providers[idx].Resources =
                [j \in 1..Len(@) |->
                    IF SameKey(@[j], t, store, id)
                    THEN [@[j] EXCEPT !.InUse = TRUE]
                    ELSE @[j]]]

\* RemoveResource that removes the last row of the key instead of the first.
RemoveResourceLast(s, resource) ==
    LET idx == getProviderState(s, Provider(resource.Type))
        Match(r) == SameKey(r, resource.Type, resource.Store, resource.ID)
    IN  IF idx = 0 THEN s
        ELSE LET k == LastIndex([h \in 1..Len(s.Providers[idx].Resources) |-> Match(s.Providers[idx].Resources[h])])
             IN  IF k = 0 THEN s
                 ELSE [s EXCEPT !.Providers[idx].Resources = RemoveAt(@, k)]

\* State.RemoveResource: removes the first row of the key of `resource` from
\* the first provider-entry of its provider type.
RemoveResource(s, resource) ==
    LET idx == getProviderState(s, Provider(resource.Type))
        Match(r) == SameKey(r, resource.Type, resource.Store, resource.ID)
    IN  IF idx = 0 THEN s
        ELSE LET k == FirstIndex([h \in 1..Len(s.Providers[idx].Resources) |-> Match(s.Providers[idx].Resources[h])])
             IN  IF k = 0 THEN s
                 ELSE [s EXCEPT !.Providers[idx].Resources = RemoveAt(@, k)]

\* State.getSecretStoreState: reflect.DeepEqual of the two StoreConfigs, that
\* is equal Type, Name and Config bytes.
getSecretStoreState(s, c) ==
    LET IsC(st) == st.StoreConfig = c IN FirstIndex([h \in 1..Len(s.Stores) |-> IsC(s.Stores[h])])

\* AddSecret that records nothing.
AddSecretNone(s, c, secret) == s

\* AddSecret that appends the secret whatever paths the entry holds.
AddSecretAppend(s, c, secret) ==
    LET found == getSecretStoreState(s, c)
        sts == IF found = 0
               THEN Append(s.Stores, [StoreConfig |-> c, Secrets |-> <<>>])
               ELSE s.Stores
        idx == IF found = 0 THEN Len(sts) ELSE found
    IN  [s EXCEPT !.Stores = [sts EXCEPT ![idx].Secrets = Append(@, secret)]]

\* State.AddSecret
AddSecret(s, c, secret) ==
    LET found == getSecretStoreState(s, c)
        sts == IF found = 0
               THEN Append(s.Stores, [StoreConfig |-> c, Secrets |-> <<>>])
               ELSE s.Stores
        idx == IF found = 0 THEN Len(sts) ELSE found
        SamePath(sec) == sec.Path = secret.Path
        k == FirstIndex([h \in 1..Len(sts[idx].Secrets) |-> SamePath(sts[idx].Secrets[h])])
    IN  [s EXCEPT !.Stores =
            IF k # 0
            THEN [sts EXCEPT ![idx].Secrets[k] = secret]
            ELSE [sts EXCEPT ![idx].Secrets = Append(@, secret)]]

\* The IDs of all resources of all provider-entries (validResourceIDs).
ResourceIDs(s) ==
    UNION {{s.Providers[p].Resources[j].ID :
                j \in 1..Len(s.Providers[p].Resources)} :
           p \in 1..Len(s.Providers)}

\* ListOrphanedSecrets that returns after the first orphan it finds.
ListOrphanedSecretsFirst(s, c) ==
    LET idx == getSecretStoreState(s, c)
        Orphaned(sec) == sec.ResourceID \notin ResourceIDs(s)
    IN  IF idx = 0 THEN <<>>
        ELSE LET os == SelectSeq(s.Stores[idx].Secrets, Orphaned)
             IN  IF os = <<>> THEN <<>> ELSE <<os[1]>>

\* State.ListOrphanedSecrets: a secret is kept when its ResourceID is the ID
\* of a resource of any provider-entry.
ListOrphanedSecrets(s, c) ==
    LET idx == getSecretStoreState(s, c)
        Orphaned(sec) == sec.ResourceID \notin ResourceIDs(s)
    IN  IF idx = 0 THEN <<>>
        ELSE SelectSeq(s.Stores[idx].Secrets, Orphaned)

\* State.RemoveSecret
RemoveSecret(s, c, secret) ==
    LET idx == getSecretStoreState(s, c)
        SamePath(sec) == sec.Path = secret.Path
    IN  IF idx = 0 THEN s
        ELSE LET k == FirstIndex([h \in 1..Len(s.Stores[idx].Secrets) |-> SamePath(s.Stores[idx].Secrets[h])])
             IN  IF k = 0 THEN s
                 ELSE [s EXCEPT !.Stores[idx].Secrets = RemoveAt(@, k)]

\* The instants an Expiration may be.
Instants == 0..(MaxNow + 8)

\* time.Time.MarshalJSON and UnmarshalJSON: the text of an instant, and the
\* instant of a text.
FormatTime(t) == "t" \o ToString(t) \o "Z"
ParseTime(str) == CHOOSE t \in Instants : FormatTime(t) = str

\* The bytes the encoder writes for a json.RawMessage: its compact form,
\* without insignificant whitespace.
compact(b) == IF b = "{ k:1 }" THEN "{k:1}" ELSE b

\* A field tagged omitempty: absent when the bytes are empty.
omitempty(b) == IF b = "" THEN <<>> ELSE <<compact(b)>>

\* json.Marshal of a Resource (InUse is tagged "-") and of a Secret.
MarshalResource(r) ==
    [type |-> r.Type, id |-> r.ID, store |-> r.Store,
     expiration |-> FormatTime(r.Expiration), deposed |-> r.Deposed,
     config |-> omitempty(r.Config)]

MarshalSecret(sec) ==
    [resource_id |-> sec.ResourceID, path |-> sec.Path,
     expiration |-> FormatTime(sec.Expiration)]

\* json.Marshal of a provider-entry and of a store-entry: "resources" and
\* "secrets" are written when the list is empty too.
MarshalProvider(ps) ==
    [type |-> ps.Type,
     resources |-> [j \in 1..Len(ps.Resources) |-> MarshalResource(ps.Resources[j])]]

MarshalStore(ss) ==
    [type |-> ss.StoreConfig.Type, name |-> ss.StoreConfig.Name,
     config |-> omitempty(ss.StoreConfig.Config),
     secrets |-> [j \in 1..Len(ss.Secrets) |-> MarshalSecret(ss.Secrets[j])]]

\* An encoder that leaves out the provider-entries and store-entries whose
\* list is empty.
MarshalStateOmitEmpty(s) ==
    [providers |-> [p \in 1..Len(SelectSeq(s.Providers, LAMBDA ps : ps.Resources # <<>>))
                        |-> MarshalProvider(SelectSeq(s.Providers,
                                LAMBDA ps : ps.Resources # <<>>)[p])],
     stores |-> [k \in 1..Len(SelectSeq(s.Stores, LAMBDA ss : ss.Secrets # <<>>))
                        |-> MarshalStore(SelectSeq(s.Stores,
                                LAMBDA ss : ss.Secrets # <<>>)[k])]]

\* json.Marshal of a State: the document the backend writes.
MarshalState(s) ==
    [providers |-> [p \in 1..Len(s.Providers) |-> MarshalProvider(s.Providers[p])],
     stores |-> [k \in 1..Len(s.Stores) |-> MarshalStore(s.Stores[k])]]

\* The field of a document tagged omitempty, as json.Unmarshal leaves it.
absent(f) == IF f = <<>> THEN "" ELSE f[1]

\* json.Unmarshal of a document into a State: InUse is false on every
\* resource.
UnmarshalResource(d) ==
    [Type |-> d.type, ID |-> d.id, Store |-> d.store, Config |-> absent(d.config),
     Expiration |-> ParseTime(d.expiration), Deposed |-> d.deposed, InUse |-> FALSE]

UnmarshalSecret(d) ==
    [ResourceID |-> d.resource_id, Path |-> d.path,
     Expiration |-> ParseTime(d.expiration)]

UnmarshalState(d) ==
    [Providers |-> [p \in 1..Len(d.providers) |->
        [Type |-> d.providers[p].type,
         Resources |-> [j \in 1..Len(d.providers[p].resources) |->
                            UnmarshalResource(d.providers[p].resources[j])]]],
     Stores |-> [k \in 1..Len(d.stores) |->
        [StoreConfig |-> [Type |-> d.stores[k].type, Name |-> d.stores[k].name,
                          Config |-> absent(d.stores[k].config)],
         Secrets |-> [j \in 1..Len(d.stores[k].secrets) |->
                            UnmarshalSecret(d.stores[k].secrets[j])]]]]

\* The state as the backend returns it after Save and Load.
Reload(s) == UnmarshalState(MarshalState(s))

----------------------------------------------------------------------------
(* Configuration *)

\* The store types and credential types Validate recognizes.
StoreTypes == {"inprocess", "ssm", "secretsmanager", "github"}
CredentialTypes == {"aws:sts", "github:access-token", "github:deploy-key",
                    "artifactory:access-token", "random"}

\* The verb %q of package fmt applied to a string without special characters.
Quote(str) == "\"" \o str \o "\""

\* The aliases of the stores before index k.
AliasesBefore(c, k) == {Alias(c.Stores[j]) : j \in 1..(k - 1)}

\* The positions <<m, ii>> of the credential requests of a configuration:
\* request ii of map m.
Positions(c) ==
    UNION {{<<m, ii>> : ii \in 1..Len(c.Requests[m].Credentials)} :
           m \in 1..Len(c.Requests)}

\* The order in which Validate and Process visit the positions.
Before(a, b) == a[1] < b[1] \/ (a[1] = b[1] /\ a[2] < b[2])

\* The (store, name) pairs of the requests that precede request ii of map m.
RequestsBefore(c, m, ii) ==
    {<<c.Requests[ab[1]].Store, c.Requests[ab[1]].Credentials[ab[2]].Name>> :
        ab \in {x \in Positions(c) : Before(x, <<m, ii>>)}}

\* Config.Validate: the first error in the order of the checks, "" when the
\* configuration is valid. Indices are printed from 0, as %d of a Go index.
Validate(c) ==
    LET BadStore(k) ==
            \/ c.Stores[k].Type \notin StoreTypes
            \/ Alias(c.Stores[k]) \in AliasesBefore(c, k)
        AllAliases == AliasesBefore(c, Len(c.Stores) + 1)
        \* The position <<m, 0>> stands for the check of the map's store.
        Bad(m, ii) ==
            IF ii = 0 THEN c.Requests[m].Store \notin AllAliases
            ELSE LET r == c.Requests[m].Credentials[ii]
                 IN  \/ r.Type \notin CredentialTypes
                     \/ <<c.Requests[m].Store, r.Name>> \in RequestsBefore(c, m, ii)
        BadPositions ==
            {mi \in Positions(c) \cup {<<m, 0>> : m \in 1..Len(c.Requests)} :
                Bad(mi[1], mi[2])}
        Where(m, ii) == "requests[" \o ToString(m - 1) \o "]: creds["
                            \o ToString(ii - 1) \o "]: "
    IN  IF c.Namespace = "" THEN "\"namespace\" must be defined"
        ELSE IF Len(c.Stores) = 0 THEN "\"stores\" must be defined"
        ELSE IF \E k \in 1..Len(c.Stores) : BadStore(k)
        THEN LET k == CHOOSE k \in 1..Len(c.Stores) :
                        BadStore(k) /\ \A h \in 1..(k - 1) : ~BadStore(h)
             IN  IF c.Stores[k].Type \notin StoreTypes
                 THEN "stores[" \o ToString(k - 1) \o "]: unknown type "
                        \o Quote(c.Stores[k].Type)
                 ELSE "stores[" \o ToString(k - 1) \o "]: duplicate store "
                        \o Quote(Alias(c.Stores[k]))
        ELSE IF BadPositions = {} THEN ""
        ELSE LET first == CHOOSE a \in BadPositions :
                            \A b \in BadPositions : a = b \/ Before(a, b)
                 m == first[1]
                 ii == first[2]
             IN  IF ii = 0
                 THEN "requests[" \o ToString(m - 1) \o "]: undefined store "
                        \o Quote(c.Requests[m].Store)
                 ELSE IF c.Requests[m].Credentials[ii].Type \notin CredentialTypes
                 THEN Where(m, ii) \o "unknown type "
                        \o Quote(c.Requests[m].Credentials[ii].Type)
                 ELSE Where(m, ii) \o "duplicated request {store:"
                        \o c.Requests[m].Store \o " name:"
                        \o c.Requests[m].Credentials[ii].Name \o "}"

\* The configurations handed to Process. Two stores: one without a name
\* (its alias is its type) and one named "two".
StoreOne == [Type |-> "inprocess", Name |-> "", Config |-> ""]
StoreTwo == [Type |-> "ssm", Name |-> "two", Config |-> ""]

Req(t, n, w, c) == [Type |-> t, Name |-> n, RotationWindow |-> w, Config |-> c]

Map(store, cs) == [Store |-> store, Credentials |-> cs]

Cfg(ss, rs) == [Namespace |-> "team", Stores |-> ss, Requests |-> rs]

Manifests ==
    { Cfg(<<StoreOne>>, <<Map("inprocess", <<Req("random", "a", <<>>, "{k:1}")>>)>>),
      Cfg(<<StoreOne, StoreTwo>>,
          <<Map("inprocess", <<Req("random", "a", <<3>>, "{ k:1 }")>>),
            Map("two", <<Req("random", "a", <<>>, "")>>)>>),
      Cfg(<<StoreOne>>, <<>>),
      Cfg(<<StoreOne>>,
          <<Map("inprocess", <<Req("random", "a", <<1>>, "{k:2}"),
                               Req("aws:sts", "b", <<>>, "")>>)>>),
      Cfg(<<StoreOne>>,
          <<Map("inprocess", <<Req("random", "a", <<>>, ""),
                               Req("aws:sts", "a", <<>>, "")>>)>>) }

\* The sets of providers and of stores sidecred.New may be given.
ProviderSets == {{"random", "aws"}, {"random"}}
StoreSets == {{"inprocess", "ssm"}, {"inprocess"}}

\* The lifetimes (ticks) of the first credential a provider issues; the k-th
\* credential of one Create lives k - 1 ticks longer.
Lifetimes == {3}

\* The numbers of credentials a Create that returns no error may hand back:
\* the random provider issues one credential, the STS provider several (two
\* here), and the interface allows an empty list.
CredCounts(t) == IF Provider(t) = "random" THEN {0, 1} ELSE {0, 2}

\* What Provider.Create may return for request r at time t: an error, or a
\* list of credentials named after the request.
CreateResults(r, t) ==
    {[err |-> TRUE, creds |-> <<>>]} \cup
    {[err |-> FALSE,
      creds |-> [k \in 1..n |->
                    [Name |-> r.Name \o "-" \o ToString(k),
                     Expiration |-> t + life + (k - 1)]]] :
        n \in CredCounts(r.Type), life \in Lifetimes}

\* One entry of the call log: the operation, what it was called with, whether
\* it returned an error, how many credentials Create returned, and whether the
\* context it was handed was already cancelled.
Call(op, t, store, id, path, exp, deposed, n, e) ==
    [op |-> op, type |-> t, store |-> store, id |-> id, path |-> path,
     exp |-> exp, deposed |-> deposed, n |-> n, err |-> e, ctx |-> cancelled]

----------------------------------------------------------------------------
(* Sidecred.Process, one step per call to a provider or a store *)

\* The StoreConfig the request loop resolves for an alias: the last store of
\* the configuration with that alias, as a list of zero or one element.
ResolveStore(c, alias) ==
    LET IsA(sc) == Alias(sc) = alias
        k == LastIndex([h \in 1..Len(c.Stores) |-> IsA(c.Stores[h])])
    IN  IF k = 0 THEN <<>> ELSE <<c.Stores[k]>>

\* Length of the resource list of provider-entry p (0 past the last entry).
ResourcesLen(s, p) ==
    IF p <= Len(s.Providers) THEN Len(s.Providers[p].Resources) ELSE 0

\* Where a run stands: the phase and the loop variables of that phase.
Ctl(phase, m, ii, p, idx, k, os) ==
    [pc |-> phase, ri |-> m, ci |-> ii, pi |-> p, i |-> idx, si |-> k, orphans |-> os]

\* The lookup s.stores[t] without its flag.
enabledAssumed(S, t) == TRUE

\* The lookup s.stores[t]: the flag is true when a store of type t is
\* registered.
enabled(S, t) == t \in S

\* The orphan sweep from store-entry k on: the loop over state.Stores computes
\* the orphans of each entry and passes over those of a store type that is not
\* registered; it stops at the first entry with an orphan to delete, and
\* Process returns when there is none.
RECURSIVE OrphansFrom(_, _, _)
OrphansFrom(s, S, k) ==
    IF k > Len(s.Stores) THEN Ctl("done", 0, 0, 0, 0, 0, <<>>)
    ELSE LET os == ListOrphanedSecrets(s, s.Stores[k].StoreConfig)
         IN  IF os # <<>> /\ enabled(S, s.Stores[k].StoreConfig.Type)
             THEN Ctl("orphans", 0, 0, 0, 0, k, os)
             ELSE OrphansFrom(s, S, k + 1)

\* A sweep that keeps every row that is not deposed.
KeptLive(resource) == ~resource.Deposed

\* A sweep that keeps every row that is in use.
KeptInUse(resource) == resource.InUse

\* The lookup s.providers[t] without its ok.
providerAssumed(P, t) == TRUE

\* The lookup s.providers[t]: ok is true when a provider of type t is
\* registered.
providerConfigured(P, t) == t \in P

\* The row the resource sweep keeps: it is in use and not deposed.
Kept(resource) == resource.InUse /\ ~resource.Deposed

\* The resource sweep from row idx of provider-entry p on, rows in reverse
\* order: kept rows and the rows of a provider type that is not registered
\* are passed over; it stops at the first row to destroy, and the orphan
\* sweep follows the last provider-entry.
RECURSIVE SweepFrom(_, _, _, _, _)
SweepFrom(s, P, S, p, idx) ==
    IF p > Len(s.Providers) THEN OrphansFrom(s, S, 1)
    ELSE IF idx = 0 THEN SweepFrom(s, P, S, p + 1, ResourcesLen(s, p + 1))
    ELSE IF Kept(s.Providers[p].Resources[idx]) THEN SweepFrom(s, P, S, p, idx - 1)
    ELSE IF ~providerConfigured(P, s.Providers[p].Type) THEN SweepFrom(s, P, S, p, idx - 1)
    ELSE Ctl("sweep", 0, 0, p, idx, 0, <<>>)

\* The request loop from request ii of map m on: a map whose store is not
\* configured or not enabled is passed over, and so are a request without a
\* name and a request whose provider is not registered; it stops at the first
\* request to process, and the resource sweep follows the last map.
RECURSIVE RequestFrom(_, _, _, _, _, _)
RequestFrom(s, c, P, S, m, ii) ==
    IF m > Len(c.Requests) THEN SweepFrom(s, P, S, 1, ResourcesLen(s, 1))
    ELSE LET request == c.Requests[m]
             sc == ResolveStore(c, request.Store)
         IN  IF sc = <<>> THEN RequestFrom(s, c, P, S, m + 1, 1)
             ELSE IF ~enabled(S, sc[1].Type) THEN RequestFrom(s, c, P, S, m + 1, 1)
             ELSE IF ii > Len(request.Credentials)
             THEN RequestFrom(s, c, P, S, m + 1, 1)
             ELSE IF request.Credentials[ii].Name = ""
             THEN RequestFrom(s, c, P, S, m, ii + 1)
             ELSE IF ~providerConfigured(P, Provider(request.Credentials[ii].Type))
             THEN RequestFrom(s, c, P, S, m, ii + 1)
             ELSE Ctl("request", m, ii, 0, 0, 0, <<>>)

\* The run moves to position k.
Goto(k) ==
    /\ pc' = k.pc
    /\ ri' = k.ri /\ ci' = k.ci
    /\ pi' = k.pi /\ i' = k.i
    /\ si' = k.si /\ orphans' = k.orphans

Init ==
    /\ state = NewState
    /\ config = Cfg(<<StoreOne>>, <<>>)
    /\ providers = {"random", "aws"}
    /\ stores = {"inprocess", "ssm"}
    /\ now = 0
    /\ pc = "idle"
    /\ err = ""
    /\ ri = 0 /\ ci = 0 /\ creds = <<>>
    /\ pi = 0 /\ i = 0
    /\ si = 0 /\ orphans = <<>>
    /\ calls = <<>>
    /\ loaded = NewState
    /\ runs = 0
    /\ cancelled = FALSE
    /\ outage = FALSE
    /\ again = "no"
    /\ earlier = <<>>
    /\ input = <<>> /\ output = <<>> /\ object = <<>>
    /\ apps = <<>>

\* A Process that goes on whatever Validate returned.
invalidNever(cfg) == FALSE

\* Process returns at once when config.Validate returned an error.
invalid(cfg) == Validate(cfg) # ""

\* runFunc: the state is loaded, and Process validates the configuration and
\* enters the request loop.
Run(cfg, P, S) ==
    /\ pc = "idle"
    /\ runs < MaxRuns
    /\ runs' = runs + 1
    /\ config' = cfg
    /\ providers' = P
    /\ stores' = S
    /\ loaded' = state
    /\ calls' = <<>>
    /\ IF invalid(cfg)
       THEN /\ err' = "invalid config: " \o Validate(cfg)
            /\ Goto(Ctl("done", 0, 0, 0, 0, 0, <<>>))
       ELSE /\ err' = ""
            /\ Goto(RequestFrom(state, cfg, P, S, 1, 1))
    /\ UNCHANGED <<apps, state, now, creds, cancelled, outage, again, earlier, input, output, object>>

\* Two calls hand the collaborator the same arguments.
SameArguments(a, b) ==
    /\ a.op = b.op /\ a.type = b.type /\ a.store = b.store
    /\ a.id = b.id /\ a.path = b.path /\ a.ctx = b.ctx
    /\ a.op # "Create" => a.exp = b.exp /\ a.deposed = b.deposed

\* Collaborators that may answer a call of the repeated run otherwise than
\* they answered the same call of the run it repeats.
IdenticalAnswerFree(call) == TRUE

\* Providers and stores answer identically: a call of a run that repeats an
\* earlier one, made at the same place of the call sequence with the same
\* arguments, gets the answer it got then.
IdenticalAnswer(call) ==
    IF earlier = <<>> \/ Len(calls) + 1 > Len(earlier[1].calls)
    THEN TRUE
    ELSE IF SameArguments(earlier[1].calls[Len(calls) + 1], call)
         THEN earlier[1].calls[Len(calls) + 1] = call
         ELSE TRUE

\* The request loop processes request ci of map ri: its resources are looked
\* up (and marked in use); it is done when one of them is valid, and handed to
\* Provider.Create otherwise.
Request ==
    /\ pc = "request"
    /\ LET request == config.Requests[ri]
           storeConfig == ResolveStore(config, request.Store)[1]
           r == request.Credentials[ci]
           alias == Alias(storeConfig)
           existing == GetResourcesByID(state, r.Type, r.Name, alias)
           marked == MarkInUse(state, r.Type, r.Name, alias)
       IN  IF \E k \in 1..Len(existing) :
                hasValidCredentials(r, existing[k], rotationWindow, now)
           THEN /\ state' = marked
                /\ Goto(RequestFrom(marked, config, providers, stores, ri, ci + 1))
                /\ UNCHANGED <<creds, calls>>
           ELSE \E res \in CreateResults(r, now) :
                /\ IdenticalAnswer(
                        Call("Create", r.Type, alias, r.Name, "",
                             IF Len(res.creds) > 0 THEN res.creds[1].Expiration ELSE 0,
                             FALSE, Len(res.creds), res.err))
                /\ calls' = Append(calls,
                        Call("Create", r.Type, alias, r.Name, "",
                             IF Len(res.creds) > 0 THEN res.creds[1].Expiration ELSE 0,
                             FALSE, Len(res.creds), res.err))
                /\ IF res.err \/ Len(res.creds) = 0
                   THEN /\ state' = marked
                        /\ Goto(RequestFrom(marked, config, providers, stores, ri, ci + 1))
                        /\ UNCHANGED creds
                   ELSE /\ state' = AddResource(marked,
                                newResource(r, alias, res.creds[1].Expiration))
                        /\ creds' = res.creds
                        /\ Goto(Ctl("write", ri, ci, 0, 0, 0, <<>>))
    /\ UNCHANGED <<apps, config, providers, stores, now, err, loaded, runs, cancelled, outage,
                   again, earlier, input, output, object>>

\* The ledger that records a secret whether Store.Write succeeded or not.
AfterWriteAlways(s, c, secret, failed) == AddSecret(s, c, secret)

\* The ledger after Store.Write returned: on an error the credential is
\* passed over, otherwise AddSecret records the secret.
AfterWrite(s, c, secret, failed) ==
    IF failed THEN s ELSE AddSecret(s, c, secret)

\* One iteration of the loop over the credentials of a Create: Store.Write,
\* and AddSecret when it succeeds.
Write ==
    /\ pc = "write"
    /\ LET request == config.Requests[ri]
           r == request.Credentials[ci]
           storeConfig == ResolveStore(config, request.Store)[1]
           c == Head(creds)
           path == BuildSecretTemplate(config.Namespace, c.Name)
       IN  \E failed \in BOOLEAN :
           LET after == AfterWrite(state, storeConfig,
                                   newSecret(r.Name, path, c.Expiration), failed)
           IN  /\ IdenticalAnswer(
                        Call("Write", r.Type, Alias(storeConfig), r.Name, path,
                             c.Expiration, FALSE, 0, failed))
               /\ calls' = Append(calls,
                        Call("Write", r.Type, Alias(storeConfig), r.Name, path,
                             c.Expiration, FALSE, 0, failed))
               /\ state' = after
               /\ IF Len(creds) = 1
                  THEN Goto(RequestFrom(after, config, providers, stores, ri, ci + 1))
                  ELSE Goto(Ctl("write", ri, ci, 0, 0, 0, <<>>))
    /\ creds' = Tail(creds)
    /\ UNCHANGED <<apps, config, providers, stores, now, err, loaded, runs, cancelled, outage,
                   again, earlier, input, output, object>>

\* A sweep that keeps the row when Provider.Destroy returned an error.
AfterDestroyKeep(s, resource, failed) ==
    IF failed THEN s ELSE RemoveResource(s, resource)

\* The ledger after Provider.Destroy returned: the error is logged, and
\* RemoveResource is called either way.
AfterDestroy(s, resource, failed) == RemoveResource(s, resource)

\* The resource sweep at a row it does not keep: Provider.Destroy, which
\* returns an error during an outage and whose error is only logged, and
\* RemoveResource.
Sweep ==
    /\ pc = "sweep"
    /\ LET resource == state.Providers[pi].Resources[i]
           after == AfterDestroy(state, resource, outage)
       IN  /\ calls' = Append(calls,
                    Call("Destroy", resource.Type, resource.Store, resource.ID, "",
                         resource.Expiration, resource.Deposed, 0, outage))
           /\ state' = after
           /\ Goto(SweepFrom(after, providers, stores, pi, i - 1))
    /\ UNCHANGED <<apps, config, providers, stores, now, err, creds, loaded, runs,
                   cancelled, outage, again, earlier, input, output, object>>

\* The orphan sweep at the last orphan of store-entry si still to visit:
\* Store.Delete, which returns an error during an outage and whose error is
\* only logged, and RemoveSecret.
Orphans ==
    /\ pc = "orphans"
    /\ LET ss == state.Stores[si]
           secret == orphans[Len(orphans)]
           rest == SubSeq(orphans, 1, Len(orphans) - 1)
           after == RemoveSecret(state, ss.StoreConfig, secret)
       IN  /\ calls' = Append(calls,
                    Call("Delete", ss.StoreConfig.Type, Alias(ss.StoreConfig),
                         secret.ResourceID, secret.Path, secret.Expiration,
                         FALSE, 0, outage))
           /\ state' = after
           /\ IF rest # <<>>
              THEN Goto(Ctl("orphans", 0, 0, 0, 0, si, rest))
              ELSE Goto(OrphansFrom(after, stores, si + 1))
    /\ UNCHANGED <<apps, config, providers, stores, now, err, creds, loaded, runs,
                   cancelled, outage, again, earlier, input, output, object>>

\* runFunc after Process returned: the deferred backend.Save writes the state
\* (which Process has not touched when it returned an error), and the process
\* ends. The next run starts d ticks later with what was saved, a
\* configuration and a Sidecred of its own.
Save(d) ==
    /\ pc = "done"
    /\ now + d <= MaxNow
    /\ now' = now + d
    /\ state' = Reload(state)
    /\ config' = Cfg(<<StoreOne>>, <<>>)
    /\ providers' = {"random", "aws"}
    /\ stores' = {"inprocess", "ssm"}
    /\ err' = ""
    /\ calls' = <<>>
    /\ loaded' = NewState
    /\ Goto(Ctl("idle", 0, 0, 0, 0, 0, <<>>))
    /\ cancelled' = FALSE
    /\ outage' = FALSE
    /\ again' = "no"
    /\ earlier' = <<>>
    /\ UNCHANGED <<apps, creds, runs, input, output, object>>

Next ==
    \/ \E cfg \in Manifests, P \in ProviderSets, S \in StoreSets :
            Run(cfg, P, S)
    \/ Request
    \/ Write
    \/ Sweep
    \/ Orphans
    \/ \E d \in 0..MaxNow : Save(d)

Spec == Init /\ [][Next]_vars

----------------------------------------------------------------------------
(* One run over a loaded state, with a caller that may cancel the context  *)
(* and collaborators that may be out of service                            *)

\* A row as the backend loads it.
LoadedRow(t, store, id, c, expiration, deposed) ==
    [Type |-> t, ID |-> id, Store |-> store, Config |-> c,
     Expiration |-> expiration, Deposed |-> deposed, InUse |-> FALSE]

\* State files a run loads: nothing; one random credential; a random and an
\* STS credential with its two secrets; one random credential in each of two
\* stores; a random credential in one store and an STS credential in another.
\* Load keeps the Config bytes of the file as they are, compact or not.
SavedStates ==
    { NewState,
      [Providers |-> <<[Type |-> "random", Resources |->
            <<LoadedRow("random", "inprocess", "a", "{k:1}", 3, FALSE)>>]>>,
       Stores |-> <<[StoreConfig |-> StoreOne, Secrets |->
            <<newSecret("a", "team.a-1", 3)>>]>>],
      [Providers |-> <<[Type |-> "random", Resources |->
            <<LoadedRow("random", "inprocess", "a", "{k:2}", 3, FALSE)>>],
                       [Type |-> "aws", Resources |->
            <<LoadedRow("aws:sts", "inprocess", "b", "", 3, FALSE)>>]>>,
       Stores |-> <<[StoreConfig |-> StoreOne, Secrets |->
            <<newSecret("a", "team.a-1", 3), newSecret("b", "team.b-1", 3),
              newSecret("b", "team.b-2", 4)>>]>>],
      [Providers |-> <<[Type |-> "random", Resources |->
            <<LoadedRow("random", "inprocess", "a", "{ k:1 }", 3, FALSE),
              LoadedRow("random", "two", "a", "", 3, FALSE)>>]>>,
       Stores |-> <<[StoreConfig |-> StoreOne, Secrets |->
            <<newSecret("a", "team.a-1", 3)>>],
                    [StoreConfig |-> StoreTwo, Secrets |->
            <<newSecret("a", "team.a-1", 3)>>]>>],
      [Providers |-> <<[Type |-> "random", Resources |->
            <<LoadedRow("random", "two", "a", "", 3, FALSE)>>],
                       [Type |-> "aws", Resources |->
            <<LoadedRow("aws:sts", "inprocess", "b", "", 3, FALSE)>>]>>,
       Stores |-> <<[StoreConfig |-> StoreTwo, Secrets |->
            <<newSecret("a", "team.a-1", 3)>>],
                    [StoreConfig |-> StoreOne, Secrets |->
            <<newSecret("b", "team.b-1", 3), newSecret("b", "team.b-2", 4)>>]>>] }

\* State files in which two rows of a provider-entry have the same key: two
\* live rows, and a live row followed by a deposed one.
DuplicateStates ==
    { [Providers |-> <<[Type |-> "random", Resources |->
            <<LoadedRow("random", "inprocess", "a", "{k:1}", 3, FALSE),
              LoadedRow("random", "inprocess", "a", "{k:1}", 2, FALSE)>>]>>,
       Stores |-> <<[StoreConfig |-> StoreOne, Secrets |->
            <<newSecret("a", "team.a-1", 3)>>]>>],
      [Providers |-> <<[Type |-> "random", Resources |->
            <<LoadedRow("random", "inprocess", "a", "{k:1}", 3, FALSE),
              LoadedRow("random", "inprocess", "a", "{k:1}", 1, TRUE)>>]>>,
       Stores |-> <<[StoreConfig |-> StoreOne, Secrets |->
            <<newSecret("a", "team.a-1", 3)>>]>>] }

\* The last run of a behaviour starts from loaded state s at time t.
InitFrom(s, t) ==
    /\ state = s
    /\ config = Cfg(<<StoreOne>>, <<>>)
    /\ providers = {"random", "aws"}
    /\ stores = {"inprocess", "ssm"}
    /\ now = t
    /\ pc = "idle"
    /\ err = ""
    /\ ri = 0 /\ ci = 0 /\ creds = <<>>
    /\ pi = 0 /\ i = 0
    /\ si = 0 /\ orphans = <<>>
    /\ calls = <<>>
    /\ loaded = NewState
    /\ runs = MaxRuns - 1
    /\ cancelled = FALSE
    /\ outage = FALSE
    /\ again = "no"
    /\ earlier = <<>>
    /\ input = <<>> /\ output = <<>> /\ object = <<>>
    /\ apps = <<>>

InitSaved == \E s \in SavedStates, t \in 0..MaxNow : InitFrom(s, t)

InitLoaded == \E s \in SavedStates \cup DuplicateStates, t \in 0..MaxNow : InitFrom(s, t)

\* The caller cancels the context while Process runs.
Cancel ==
    /\ pc \in {"request", "write", "sweep", "orphans"}
    /\ ~cancelled
    /\ cancelled' = TRUE
    /\ UNCHANGED <<apps, state, config, providers, stores, now, pc, err, ri, ci, creds,
                   pi, i, si, orphans, calls, loaded, runs, outage, again, earlier, input, output, object>>

\* An outage of the services behind Provider.Destroy and Store.Delete begins
\* or ends while Process runs.
Outage ==
    /\ pc \in {"request", "write", "sweep", "orphans"}
    /\ outage' = ~outage
    /\ UNCHANGED <<apps, state, config, providers, stores, now, pc, err, ri, ci, creds,
                   pi, i, si, orphans, calls, loaded, runs, cancelled, again, earlier, input, output, object>>

NextFaults ==
    \/ Next
    \/ Cancel
    \/ Outage

SpecSaved == InitSaved /\ [][NextFaults]_vars

SpecLoaded == InitLoaded /\ [][NextFaults]_vars

----------------------------------------------------------------------------
(* A run that is repeated at once *)

\* runFunc is called again as soon as a run has returned nil: the state is
\* saved and loaded, and Process gets the same configuration, the same
\* providers and stores and the same time.
Again ==
    /\ pc = "done"
    /\ err = ""
    /\ again = "no"
    /\ again' = IF \A n \in 1..Len(calls) :
                        calls[n].op = "Create" => ~calls[n].err /\ calls[n].n > 0
                THEN "clean" ELSE "failed"
    /\ state' = Reload(state)
    /\ loaded' = Reload(state)
    /\ calls' = <<>>
    /\ Goto(RequestFrom(Reload(state), config, providers, stores, 1, 1))
    /\ UNCHANGED <<apps, config, providers, stores, now, err, creds, runs, cancelled, outage,
                   earlier, input, output, object>>

NextAgain ==
    \/ Next
    \/ Again

SpecAgain == InitSaved /\ [][NextAgain]_vars

----------------------------------------------------------------------------
(* A run that is repeated from a copy of its input *)

\* Process is called a second time with deep-equal copies of the
\* configuration and of the state the first call was handed, at the same
\* time, on a Sidecred with the same providers and stores; what the first
\* call did is kept in `earlier`.
Repeat ==
    /\ pc = "done"
    /\ earlier = <<>>
    /\ again = "no"
    /\ earlier' = <<[calls |-> calls, state |-> state, err |-> err]>>
    /\ state' = loaded
    /\ calls' = <<>>
    /\ IF invalid(config)
       THEN /\ err' = "invalid config: " \o Validate(config)
            /\ Goto(Ctl("done", 0, 0, 0, 0, 0, <<>>))
       ELSE /\ err' = ""
            /\ Goto(RequestFrom(loaded, config, providers, stores, 1, 1))
    /\ UNCHANGED <<apps, config, providers, stores, now, creds, loaded, runs, cancelled,
                   outage, again, input, output, object>>

NextRepeat ==
    \/ Next
    \/ Repeat

SpecRepeat == InitSaved /\ [][NextRepeat]_vars

----------------------------------------------------------------------------
(* A second pass over the same State object *)

\* Process has returned nil and is called again with another configuration
\* and the same *State, which nothing saved or loaded in between: the InUse
\* flags are those the first pass left.
Rerun(cfg) ==
    /\ pc = "done"
    /\ err = ""
    /\ again = "no"
    /\ again' = "same"
    /\ config' = cfg
    /\ loaded' = state
    /\ calls' = <<>>
    /\ IF invalid(cfg)
       THEN /\ err' = "invalid config: " \o Validate(cfg)
            /\ Goto(Ctl("done", 0, 0, 0, 0, 0, <<>>))
       ELSE /\ err' = ""
            /\ Goto(RequestFrom(state, cfg, providers, stores, 1, 1))
    /\ UNCHANGED <<apps, state, providers, stores, now, creds, runs, cancelled, outage,
                   earlier, input, output, object>>

NextRerun ==
    \/ Next
    \/ \E cfg \in Manifests : Rerun(cfg)

SpecRerun == InitSaved /\ [][NextRerun]_vars

----------------------------------------------------------------------------
(* Package config: the v1 configuration, its list shorthand and Validate *)

\* credentialRequest: an inlined *CredentialRequest and a list of
\* *CredentialRequest.
credentialRequest(t, n, c, list) ==
    [Type |-> t, Name |-> n, RotationWindow |-> <<>>, Config |-> c, List |-> list]

\* requestV1 and v1.
requestV1(store, cs) == [Store |-> store, Creds |-> cs]
v1(ss, rs) == [Namespace |-> "team", Stores |-> ss, Requests |-> rs]

\* credentialRequest.validate: "" is nil.
validate(c) ==
    IF Len(c.List) = 0 THEN ""
    ELSE IF c.Name # "" THEN Quote("name") \o " should not be specified for lists"
    ELSE IF c.Config # "" THEN Quote("config") \o " should not be specified for lists"
    ELSE IF \E k \in 1..Len(c.List) : c.List[k].Type # ""
    THEN LET k == CHOOSE k \in 1..Len(c.List) :
                    c.List[k].Type # "" /\ \A h \in 1..(k - 1) : c.List[h].Type = ""
         IN  "list entry[" \o ToString(k - 1) \o "]: request should not include "
                \o Quote("type")
    ELSE ""

\* flatten that leaves the Type of the list elements as it was parsed.
flattenUntyped(c) ==
    IF Len(c.List) = 0
    THEN <<Req(c.Type, c.Name, c.RotationWindow, c.Config)>>
    ELSE c.List

\* credentialRequest.flatten: the inlined request when there is no list,
\* otherwise the list elements, each with the Type of the parent.
flatten(c) ==
    IF Len(c.List) = 0
    THEN <<Req(c.Type, c.Name, c.RotationWindow, c.Config)>>
    ELSE [k \in 1..Len(c.List) |-> [c.List[k] EXCEPT !.Type = c.Type]]

\* The credentialRequest after flatten was called on it: the list elements
\* are pointers, and the Type flatten assigned stays in them.
flattened(c) == [c EXCEPT !.List = IF Len(c.List) = 0 THEN <<>> ELSE flatten(c)]

\* requestV1.asRequest: the flattened requests of the entries from k on.
RECURSIVE Credentials(_, _)
Credentials(cs, k) ==
    IF k > Len(cs) THEN <<>> ELSE flatten(cs[k]) \o Credentials(cs, k + 1)

asRequest(c) == Map(c.Store, Credentials(c.Creds, 1))

\* v1.Requests
Requests(c) == [m \in 1..Len(c.Requests) |-> asRequest(c.Requests[m])]

\* The places v1.Validate visits in the request loop: <<m, 0, 0>> is the
\* store of request map m, <<m, ii, 0>> is validate() of its entry ii, and
\* <<m, ii, k>> is element k of flatten() of that entry.
Visits(c) ==
    UNION {{<<m, 0, 0>>} \cup
           UNION {{<<m, ii, k>> : k \in 0..Len(flatten(c.Requests[m].Creds[ii]))} :
                  ii \in 1..Len(c.Requests[m].Creds)} :
           m \in 1..Len(c.Requests)}

\* The order of the visits.
Sooner(a, b) ==
    \/ a[1] < b[1]
    \/ a[1] = b[1] /\ a[2] < b[2]
    \/ a[1] = b[1] /\ a[2] = b[2] /\ a[3] < b[3]

\* The flattened request of a visit <<m, ii, k>> with k > 0.
Visited(c, a) == flatten(c.Requests[a[1]].Creds[a[2]])[a[3]]

\* A key of the map `requests` that tells requests of different types apart.
requestsKeyTyped(store, r) == <<store, r.Name, r.Type>>

\* requestsKey{store, name}
requestsKey(store, r) == <<store, r.Name>>

\* The keys in the map `requests` when Validate gets to visit a.
KeysBefore(c, a) ==
    {requestsKey(c.Requests[b[1]].Store, Visited(c, b)) :
        b \in {x \in Visits(c) : x[3] > 0 /\ Sooner(x, a)}}

\* The visit makes Validate return an error.
Fails(c, a) ==
    IF a[2] = 0
    THEN c.Requests[a[1]].Store \notin AliasesBefore(c, Len(c.Stores) + 1)
    ELSE IF a[3] = 0
    THEN validate(c.Requests[a[1]].Creds[a[2]]) # ""
    ELSE \/ Visited(c, a).Type \notin CredentialTypes
         \/ requestsKey(c.Requests[a[1]].Store, Visited(c, a)) \in KeysBefore(c, a)

\* The first visit that fails, as a list of zero or one element.
FirstFailure(c) ==
    IF \E a \in Visits(c) : Fails(c, a)
    THEN <<CHOOSE a \in Visits(c) :
                /\ Fails(c, a)
                /\ \A b \in Visits(c) : Fails(c, b) => (a = b \/ Sooner(a, b))>>
    ELSE <<>>

\* The first store Validate rejects, as a list of zero or one index.
FirstBadStore(c) ==
    LET Bad(k) == \/ c.Stores[k].Type \notin StoreTypes
                  \/ Alias(c.Stores[k]) \in AliasesBefore(c, k)
    IN  IF \E k \in 1..Len(c.Stores) : Bad(k)
        THEN <<CHOOSE k \in 1..Len(c.Stores) : Bad(k) /\ \A h \in 1..(k - 1) : ~Bad(h)>>
        ELSE <<>>

\* v1.Validate: "" is nil.
v1Validate(c) ==
    IF c.Namespace = "" THEN Quote("namespace") \o " must be defined"
    ELSE IF Len(c.Stores) = 0 THEN Quote("stores") \o " must be defined"
    ELSE IF FirstBadStore(c) # <<>>
    THEN LET k == FirstBadStore(c)[1]
         IN  IF c.Stores[k].Type \notin StoreTypes
             THEN "stores[" \o ToString(k - 1) \o "]: unknown type "
                    \o Quote(c.Stores[k].Type)
             ELSE "stores[" \o ToString(k - 1) \o "]: duplicate store "
                    \o Quote(Alias(c.Stores[k]))
    ELSE IF FirstFailure(c) = <<>> THEN ""
    ELSE LET a == FirstFailure(c)[1]
             request == c.Requests[a[1]]
             Where == "requests[" \o ToString(a[1] - 1) \o "]: creds["
                        \o ToString(a[2] - 1) \o "]: "
         IN  IF a[2] = 0
             THEN "requests[" \o ToString(a[1] - 1) \o "]: undefined store "
                    \o Quote(request.Store)
             ELSE IF a[3] = 0
             THEN Where \o validate(request.Creds[a[2]])
             ELSE IF Visited(c, a).Type \notin CredentialTypes
             THEN Where \o "unknown type " \o Quote(Visited(c, a).Type)
             ELSE Where \o "duplicated request {store:" \o request.Store
                    \o " name:" \o Visited(c, a).Name \o "}"

\* The configuration after v1.Requests: flatten was called on every entry.
AfterRequests(c) ==
    [c EXCEPT !.Requests =
        [m \in 1..Len(c.Requests) |->
            [c.Requests[m] EXCEPT !.Creds =
                [ii \in 1..Len(c.Requests[m].Creds) |->
                    flattened(c.Requests[m].Creds[ii])]]]]

\* The configuration after v1.Validate: flatten was called on the entries
\* Validate got to, the one it failed in included when it failed past
\* validate().
AfterValidate(c) ==
    IF c.Namespace = "" \/ Len(c.Stores) = 0 \/ FirstBadStore(c) # <<>>
    THEN c
    ELSE [c EXCEPT !.Requests =
            [m \in 1..Len(c.Requests) |->
                [c.Requests[m] EXCEPT !.Creds =
                    [ii \in 1..Len(c.Requests[m].Creds) |->
                        IF \/ FirstFailure(c) = <<>>
                           \/ Sooner(<<m, ii, 0>>, FirstFailure(c)[1])
                        THEN flattened(c.Requests[m].Creds[ii])
                        ELSE c.Requests[m].Creds[ii]]]]]

\* The entries of the configurations under test: plain requests (one of an
\* unknown type), and lists: a good one, one whose parent has a name, one
\* whose parent has a config, one with an element that has a type, and one
\* that names a credential twice.
Entries ==
    { credentialRequest("random", "a", "", <<>>),
      credentialRequest("aws:sts", "a", "", <<>>),
      credentialRequest("random", "b", "{k:1}", <<>>),
      credentialRequest("bogus", "c", "", <<>>),
      credentialRequest("aws:sts", "", "",
            <<Req("", "a", <<>>, ""), Req("", "b", <<>>, "{k:1}")>>),
      credentialRequest("random", "x", "", <<Req("", "c", <<>>, "")>>),
      credentialRequest("random", "", "{k:1}", <<Req("", "c", <<>>, "")>>),
      credentialRequest("aws:sts", "", "",
            <<Req("", "c", <<>>, ""), Req("random", "d", <<>>, "")>>),
      credentialRequest("random", "", "",
            <<Req("", "d", <<>>, ""), Req("", "d", <<>>, "")>>) }

\* The store types a configuration may name: the StoreType constants, and a
\* type that is none of them.
NamedStoreTypes ==
    {"inprocess", "ssm", "secretsmanager", "github", "github:dependabot", "bogus"}

\* The configurations config.Parse returns that are under test: one or two
\* request maps over the entries, and stores of every type.
Parsed ==
    {v1(<<StoreOne, StoreTwo>>, <<requestV1("inprocess", <<x>>)>>) : x \in Entries}
    \cup {v1(<<StoreOne, StoreTwo>>, <<requestV1("inprocess", <<x, y>>)>>) :
            x \in Entries, y \in Entries}
    \cup {v1(<<StoreOne, StoreTwo>>,
             <<requestV1("inprocess", <<x>>), requestV1(st, <<y>>)>>) :
            x \in Entries, y \in Entries, st \in {"inprocess", "two", "three"}}
    \cup {v1(<<[Type |-> t, Name |-> "", Config |-> ""]>>, <<>>) :
            t \in NamedStoreTypes}
    \cup {v1(<<StoreOne, [Type |-> t, Name |-> n, Config |-> ""]>>, <<>>) :
            t \in NamedStoreTypes, n \in {"", "two"}}
    \cup {v1(<<>>, <<>>),
          [v1(<<StoreOne>>, <<>>) EXCEPT !.Namespace = ""]}

\* A configuration was parsed; nothing was called on it yet.
InitParsed ==
    /\ state = NewState
    /\ config \in Parsed
    /\ providers = {"random", "aws"}
    /\ stores = {"inprocess", "ssm"}
    /\ now = 0
    /\ pc = "parsed"
    /\ err = ""
    /\ ri = 0 /\ ci = 0 /\ creds = <<>>
    /\ pi = 0 /\ i = 0
    /\ si = 0 /\ orphans = <<>>
    /\ calls = <<>>
    /\ loaded = NewState
    /\ runs = 0
    /\ cancelled = FALSE
    /\ outage = FALSE
    /\ again = "no"
    /\ earlier = <<>>
    /\ input = <<>> /\ output = <<>> /\ object = <<>>
    /\ apps = <<>>

\* config.Requests() is called on the configuration.
CallRequests ==
    /\ pc = "parsed"
    /\ input' = <<[fn |-> "Requests", config |-> config]>>
    /\ output' = <<Requests(config)>>
    /\ config' = AfterRequests(config)
    /\ UNCHANGED <<apps, state, providers, stores, now, pc, err, ri, ci, creds, pi, i, si,
                   orphans, calls, loaded, runs, cancelled, outage, again, earlier,
                   object>>

\* config.Validate() is called on the configuration.
CallValidate ==
    /\ pc = "parsed"
    /\ input' = <<[fn |-> "Validate", config |-> config]>>
    /\ output' = <<v1Validate(config)>>
    /\ config' = AfterValidate(config)
    /\ UNCHANGED <<apps, state, providers, stores, now, pc, err, ri, ci, creds, pi, i, si,
                   orphans, calls, loaded, runs, cancelled, outage, again, earlier,
                   object>>

\* Process is called with the configuration: it logs len(config.Requests())
\* and then calls config.Validate(); the output is the error Validate returns
\* to Process, which returns "invalid config: ..." when it is not empty.
ProcessConfig ==
    /\ pc = "parsed"
    /\ input' = <<[fn |-> "Process", config |-> config]>>
    /\ output' = <<v1Validate(AfterRequests(config))>>
    /\ config' = AfterValidate(AfterRequests(config))
    /\ UNCHANGED <<apps, state, providers, stores, now, pc, err, ri, ci, creds, pi, i, si,
                   orphans, calls, loaded, runs, cancelled, outage, again, earlier,
                   object>>

NextConfig ==
    \/ CallRequests
    \/ CallValidate
    \/ ProcessConfig

SpecConfig == InitParsed /\ [][NextConfig]_vars

----------------------------------------------------------------------------
(* Packages backend/file and backend/s3: StateBackend.Load and Save *)

\* The number of writes it takes ioutil.WriteFile to write a document.
Chunks == 2

\* The object at the path of the state: none, and the document of a state
\* written in full. `size` is the number of chunks of `doc` that are there.
NoObject(b) ==
    [backend |-> b, exists |-> FALSE, doc |-> MarshalState(NewState), size |-> 0]
Stored(b, s) ==
    [backend |-> b, exists |-> TRUE, doc |-> MarshalState(s), size |-> Chunks]

\* The code of the error GetObject returns: NoSuchKey when there is no
\* object, another code when the service fails, "" when it returns the
\* object. For the file backend, the error of os.Stat, os.Create or
\* ioutil.ReadFile.
GetObject(o, failure) ==
    IF failure THEN "AccessDenied"
    ELSE IF ~o.exists /\ o.backend = "s3" THEN "NoSuchKey"
    ELSE ""

\* A Load that passes every error of GetObject on.
isNoSuchKeyNever(code) == FALSE

\* e.Code() == s3.ErrCodeNoSuchKey
isNoSuchKey(code) == code = "NoSuchKey"

\* StateBackend.Load of both backends: what it returns for the object it
\* finds. The file backend creates the file when there is none, returns an
\* empty State for an empty file and the error of json.Unmarshal for a
\* document that is not complete; the s3 backend returns an empty State for
\* NoSuchKey.
Load(o, failure) ==
    LET code == GetObject(o, failure)
    IN  IF isNoSuchKey(code) THEN [state |-> NewState, err |-> ""]
        ELSE IF code # "" THEN [state |-> NewState, err |-> code]
        ELSE IF o.backend = "file" /\ (~o.exists \/ o.size = 0)
        THEN [state |-> NewState, err |-> ""]
        ELSE IF o.size < Chunks
        THEN [state |-> NewState, err |-> "unexpected end of JSON input"]
        ELSE [state |-> UnmarshalState(o.doc), err |-> ""]

\* The object after Load: createFileIfNotExists of the file backend has
\* created an empty file when there was none.
AfterLoad(o, failure) ==
    IF o.backend = "file" /\ ~o.exists /\ ~failure
    THEN [o EXCEPT !.exists = TRUE, !.size = 0]
    ELSE o

\* The states a process may hold when it saves: the saved states, the same
\* with every resource in use, and the same after every resource and every
\* secret was removed.
InUseAll(s) ==
    [s EXCEPT !.Providers =
        [p \in 1..Len(@) |->
            [@[p] EXCEPT !.Resources =
                [j \in 1..Len(@) |-> [@[j] EXCEPT !.InUse = TRUE]]]]]

Emptied(s) ==
    [Providers |-> [p \in 1..Len(s.Providers) |->
                        [s.Providers[p] EXCEPT !.Resources = <<>>]],
     Stores |-> [k \in 1..Len(s.Stores) |-> [s.Stores[k] EXCEPT !.Secrets = <<>>]]]

\* The first provider-entry and the first store-entry have lost their rows
\* and secrets; the other resources are in use.
EmptiedFirst(s) ==
    [Providers |-> [p \in 1..Len(s.Providers) |->
                        IF p = 1 THEN [s.Providers[p] EXCEPT !.Resources = <<>>]
                        ELSE InUseAll(s).Providers[p]],
     Stores |-> [k \in 1..Len(s.Stores) |->
                        IF k = 1 THEN [s.Stores[k] EXCEPT !.Secrets = <<>>]
                        ELSE s.Stores[k]]]

InMemoryStates ==
    LET Base == SavedStates \cup DuplicateStates
    IN  Base \cup {InUseAll(s) : s \in Base} \cup {Emptied(s) : s \in Base}
             \cup {EmptiedFirst(s) : s \in Base}

\* A process holds a state to save; the backend holds no object, an empty
\* file, or the document of an earlier state.
InitBackend ==
    /\ state \in InMemoryStates
    /\ \E b \in {"file", "s3"} :
        \/ object = <<NoObject(b)>>
        \/ b = "file" /\ object = <<[NoObject(b) EXCEPT !.exists = TRUE]>>
        \/ \E s \in SavedStates : object = <<Stored(b, s)>>
    /\ apps = <<>>
    /\ config = Cfg(<<StoreOne>>, <<>>)
    /\ providers = {"random", "aws"}
    /\ stores = {"inprocess", "ssm"}
    /\ now = 0
    /\ pc = "backend"
    /\ err = ""
    /\ ri = 0 /\ ci = 0 /\ creds = <<>>
    /\ pi = 0 /\ i = 0
    /\ si = 0 /\ orphans = <<>>
    /\ calls = <<>>
    /\ loaded = NewState
    /\ runs = 0
    /\ cancelled = FALSE
    /\ outage = FALSE
    /\ again = "no"
    /\ earlier = <<>>
    /\ input = <<>> /\ output = <<>>

\* Save is called with the state: the document is marshalled; the file
\* backend creates the file when there is none and ioutil.WriteFile opens it
\* with O_TRUNC, so that the file is empty; the s3 backend has not called
\* PutObject yet.
SaveBegin ==
    /\ pc = "backend"
    /\ input = <<>>
    /\ input' = <<[fn |-> "Save", old |-> object[1], status |-> "running"]>>
    /\ object' = IF object[1].backend = "file"
                 THEN <<[object[1] EXCEPT !.exists = TRUE, !.size = 0,
                                          !.doc = MarshalState(state)]>>
                 ELSE object
    /\ UNCHANGED <<apps, state, config, providers, stores, now, pc, err, ri, ci, creds, pi,
                   i, si, orphans, calls, loaded, runs, cancelled, outage, again,
                   earlier, output>>

\* Save goes on: the file backend writes the next chunk of the document, the
\* s3 backend puts the object; Save returns when the document is complete.
SaveWrite ==
    /\ pc = "backend"
    /\ input # <<>> /\ input[1].status = "running"
    /\ LET size == IF object[1].backend = "file" THEN object[1].size + 1 ELSE Chunks
       IN  /\ object' = <<[object[1] EXCEPT !.exists = TRUE, !.size = size,
                                            !.doc = MarshalState(state)]>>
           /\ input' = <<[input[1] EXCEPT !.status =
                            IF size = Chunks THEN "done" ELSE "running"]>>
    /\ UNCHANGED <<apps, state, config, providers, stores, now, pc, err, ri, ci, creds, pi,
                   i, si, orphans, calls, loaded, runs, cancelled, outage, again,
                   earlier, output>>

\* The process that saves is stopped before Save returned.
SaveInterrupt ==
    /\ pc = "backend"
    /\ input # <<>> /\ input[1].status = "running"
    /\ input' = <<[input[1] EXCEPT !.status = "interrupted"]>>
    /\ UNCHANGED <<apps, state, config, providers, stores, now, pc, err, ri, ci, creds, pi,
                   i, si, orphans, calls, loaded, runs, cancelled, outage, again,
                   earlier, output, object>>

\* Another process calls Load of the same path; `failure` is a failure of
\* the file system or of the service that is not the absence of the object.
CallLoad(failure) ==
    /\ pc = "backend"
    /\ output' = <<[state |-> Load(object[1], failure).state,
                    err |-> Load(object[1], failure).err,
                    found |-> object[1],
                    failure |-> failure,
                    during |-> IF input = <<>> THEN "before" ELSE input[1].status]>>
    /\ object' = <<AfterLoad(object[1], failure)>>
    /\ UNCHANGED <<apps, state, config, providers, stores, now, pc, err, ri, ci, creds, pi,
                   i, si, orphans, calls, loaded, runs, cancelled, outage, again,
                   earlier, input>>

NextBackend ==
    \/ SaveBegin
    \/ SaveWrite
    \/ SaveInterrupt
    \/ \E failure \in BOOLEAN : CallLoad(failure)

SpecBackend == InitBackend /\ [][NextBackend]_vars

----------------------------------------------------------------------------
(* The operations of State, called one at a time *)

MaxAdds == 2

\* The resources newResource makes for the requests of the model.
NewResources ==
    {newResource([Type |-> t, Name |-> n, Config |-> ""], store, 2) :
        t \in {"random", "aws:sts", "github:access-token"},
        n \in {"a", "b"},
        store \in {"inprocess", "ssm"}}

InitState ==
    \E s \in InMemoryStates :
        /\ state = s
        /\ config = Cfg(<<StoreOne>>, <<>>)
        /\ providers = {"random", "aws"}
        /\ stores = {"inprocess", "ssm"}
        /\ now = 0
        /\ pc = "state"
        /\ err = ""
        /\ ri = 0 /\ ci = 0 /\ creds = <<>>
        /\ pi = 0 /\ i = 0
        /\ si = 0 /\ orphans = <<>>
        /\ calls = <<>>
        /\ loaded = NewState
        /\ runs = 0
        /\ cancelled = FALSE
        /\ outage = FALSE
        /\ again = "no"
        /\ earlier = <<>>
        /\ input = <<>>
        /\ output = <<>>
        /\ object = <<>>
        /\ apps = <<>>

\* state.AddResource(resource)
CallAddResource(resource) ==
    /\ pc = "state"
    /\ IF input = <<>> THEN TRUE ELSE input[1].n < MaxAdds
    /\ input' = <<[fn |-> "AddResource", state |-> state, resource |-> resource,
                   n |-> IF input = <<>> THEN 1 ELSE input[1].n + 1]>>
    /\ state' = AddResource(state, resource)
    /\ UNCHANGED <<apps, config, providers, stores, now, pc, err, ri, ci, creds, pi, i,
                   si, orphans, calls, loaded, runs, cancelled, outage, again,
                   earlier, output, object>>

NextState == \E resource \in NewResources : CallAddResource(resource)

SpecState == InitState /\ [][NextState]_vars

----------------------------------------------------------------------------
(* The secrets of State: AddSecret and RemoveSecret, called one at a time *)

MaxCalls == 2

\* A store with a Config, in two encodings of the same value.
StoreThree == [Type |-> "ssm", Name |-> "three", Config |-> "{k:1}"]
StoreThreeSpaced == [Type |-> "ssm", Name |-> "three", Config |-> "{ k:1 }"]

StoreConfigs == {StoreOne, StoreThree, StoreThreeSpaced}

\* The secrets newSecret makes for the calls of the model.
NewSecrets ==
    {newSecret("a", path, expiration) :
        path \in {"team.a-1", "team.b-1"}, expiration \in {3, 5}}

InitSecrets ==
    \E s \in InMemoryStates :
        /\ state = s
        /\ config = Cfg(<<StoreOne>>, <<>>)
        /\ providers = {"random", "aws"}
        /\ stores = {"inprocess", "ssm"}
        /\ now = 0
        /\ pc = "secrets"
        /\ err = ""
        /\ ri = 0 /\ ci = 0 /\ creds = <<>>
        /\ pi = 0 /\ i = 0
        /\ si = 0 /\ orphans = <<>>
        /\ calls = <<>>
        /\ loaded = NewState
        /\ runs = 0
        /\ cancelled = FALSE
        /\ outage = FALSE
        /\ again = "no"
        /\ earlier = <<>>
        /\ input = <<>>
        /\ output = <<>>
        /\ object = <<>>
        /\ apps = <<>>

\* The call fn(c, secret) is made on the state.
Called(fn, c, secret) ==
    /\ pc = "secrets"
    /\ IF input = <<>> THEN TRUE ELSE input[1].n < MaxCalls
    /\ input' = <<[fn |-> fn, state |-> state, config |-> c, secret |-> secret,
                   n |-> IF input = <<>> THEN 1 ELSE input[1].n + 1]>>
    /\ UNCHANGED <<apps, config, providers, stores, now, pc, err, ri, ci, creds, pi, i,
                   si, orphans, calls, loaded, runs, cancelled, outage, again,
                   earlier, output, object>>

\* state.AddSecret(c, secret)
CallAddSecret(c, secret) ==
    /\ Called("AddSecret", c, secret)
    /\ state' = AddSecret(state, c, secret)

\* state.RemoveSecret(c, secret)
CallRemoveSecret(c, secret) ==
    /\ Called("RemoveSecret", c, secret)
    /\ state' = RemoveSecret(state, c, secret)

NextSecrets ==
    \/ \E c \in StoreConfigs, secret \in NewSecrets : CallAddSecret(c, secret)
    \/ \E c \in StoreConfigs, secret \in NewSecrets : CallRemoveSecret(c, secret)

SpecSecrets == InitSecrets /\ [][NextSecrets]_vars

----------------------------------------------------------------------------
(* runFunc: one cycle of Load, Process and Save *)

Commands == {"sidecred", "sidecred-lambda"}

\* runFunc of command c is called with the state s stored by backend b.
InitCycle ==
    \E s \in SavedStates, b \in {"file", "s3"}, c \in Commands :
        /\ state = NewState
        /\ config = Cfg(<<StoreOne>>, <<>>)
        /\ providers = {"random", "aws"}
        /\ stores = {"inprocess", "ssm"}
        /\ now = 0
        /\ pc = "start"
        /\ err = ""
        /\ ri = 0 /\ ci = 0 /\ creds = <<>>
        /\ pi = 0 /\ i = 0
        /\ si = 0 /\ orphans = <<>>
        /\ calls = <<>>
        /\ loaded = NewState
        /\ runs = MaxRuns - 1
        /\ cancelled = FALSE
        /\ outage = FALSE
        /\ again = "no"
        /\ earlier = <<>>
        /\ input = <<[fn |-> "runFunc", cmd |-> c]>>
        /\ output = <<>>
        /\ object = <<Stored(b, s)>>
        /\ apps = <<>>

\* runFunc's test of the error of backend.Load.
loadFailed(e) == e # ""

\* state, err := backend.Load(statePath): with an error runFunc returns
\* "failed to load state: ...", without one it goes on to Process.
CycleLoad(failure) ==
    /\ pc = "start"
    /\ LET l == Load(object[1], failure)
       IN  IF loadFailed(l.err)
           THEN /\ pc' = "returned"
                /\ output' = <<[result |-> "failed to load state: " \o l.err,
                                loadErr |-> l.err, processed |-> FALSE,
                                processErr |-> "", saved |-> FALSE, saveErr |-> ""]>>
                /\ UNCHANGED state
           ELSE /\ pc' = "idle"
                /\ state' = l.state
                /\ UNCHANGED output
    /\ UNCHANGED <<apps, config, providers, stores, now, err, ri, ci, creds, pi, i, si,
                   orphans, calls, loaded, runs, cancelled, outage, again,
                   earlier, input, object>>

\* What backend.Save returns.
SaveError(failure) == IF failure THEN "save failed" ELSE ""

\* Process has returned err. The command sidecred has deferred backend.Save:
\* it is called whatever Process returned, its error is dropped, and runFunc
\* returns what Process returned. The command sidecred-lambda returns the
\* error of Process without saving, and otherwise calls backend.Save and
\* returns "failed to save state: ..." when Save returns an error.
CycleSave(failure) ==
    /\ pc = "done"
    /\ input # <<>> /\ input[1].fn = "runFunc"
    /\ pc' = "returned"
    /\ LET called == input[1].cmd = "sidecred" \/ err = ""
           e == IF called THEN SaveError(failure) ELSE ""
       IN  /\ output' = <<[result |-> IF input[1].cmd = "sidecred" \/ err # ""
                                       THEN err
                                       ELSE IF e # ""
                                            THEN "failed to save state: " \o e
                                            ELSE "",
                            loadErr |-> "", processed |-> TRUE,
                            processErr |-> err, saved |-> called, saveErr |-> e]>>
           /\ object' = IF called /\ e = ""
                        THEN <<Stored(object[1].backend, state)>>
                        ELSE object
    /\ UNCHANGED <<apps, state, config, providers, stores, now, err, ri, ci, creds, pi,
                   i, si, orphans, calls, loaded, runs, cancelled, outage, again,
                   earlier, input>>

NextCycle ==
    \/ \E failure \in BOOLEAN : CycleLoad(failure)
    \/ \E cfg \in Manifests, P \in ProviderSets, S \in StoreSets :
            Run(cfg, P, S)
    \/ Request
    \/ Write
    \/ Sweep
    \/ Orphans
    \/ \E failure \in BOOLEAN : CycleSave(failure)

SpecCycle == InitCycle /\ [][NextCycle]_vars

----------------------------------------------------------------------------
(* Package githubrotator: Rotator.CreateInstallationToken *)

defaultRateLimitCutoff == 50

\* Config.IntegrationIDs
IntegrationIDs == <<"App0", "App1", "App2">>

\* hasTokenExpired treats a token as expired this long (ticks) before its
\* ExpiresAt.
ExpiryMargin == 1

\* How long (ticks) a token lives that an app issues.
TokenLifetimes == {2}

\* What rateLimitClient.GetTokenRateLimits may return: an error, or the
\* remaining core quota.
RateLimitResults ==
    {[err |-> TRUE, Remaining |-> 0]} \cup
    {[err |-> FALSE, Remaining |-> n] : n \in {49, 50, 51}}

\* What App.CreateInstallationToken may return at time t: a token, a
\* RateLimitError whose Rate.Reset has passed or is still to come, or another
\* error.
AppResults(t) ==
    {[kind |-> "token", ExpiresAt |-> t + d, Reset |-> 0] : d \in TokenLifetimes}
    \cup {[kind |-> "rateLimit", ExpiresAt |-> 0, Reset |-> r] : r \in {t, t + 1}}
    \cup {[kind |-> "error", ExpiresAt |-> 0, Reset |-> 0]}

\* New: one app per integration ID, without token and rate limit error.
New(ids) ==
    [k \in 1..Len(ids) |->
        [integrationID |-> ids[k], token |-> <<>>, rateLimitError |-> <<>>]]

\* app.hasZeroRateLimit at time t: there is a rate limit error and its
\* Rate.Reset is not later than t.
hasZeroRateLimit(a, t) ==
    a.rateLimitError # <<>> /\ a.rateLimitError[1] - t <= 0

\* hasTokenExpired
hasTokenExpired(token, t) == token.ExpiresAt - t <= ExpiryMargin

\* app.hasValidToken
hasValidToken(a, t) == a.token # <<>> /\ ~hasTokenExpired(a.token[1], t)

\* A rotate that leaves the list as it is.
rotateNot(as) == as

\* A rotate that shifts the list and forgets the head it took off.
rotateLosesHead(as) ==
    [k \in 1..Len(as) |-> IF k < Len(as) THEN as[k + 1] ELSE as[Len(as)]]

\* Rotator.rotate: every app moves one place to the front, the head to the
\* back.
rotate(as) ==
    [k \in 1..Len(as) |-> IF k < Len(as) THEN as[k + 1] ELSE as[1]]

\* A cutoff test that finds no quota too low.
belowCutoffNever(remaining) == FALSE

\* rateLimits.Core.Remaining < defaultRateLimitCutoff
belowCutoff(remaining) == remaining < defaultRateLimitCutoff

InitRotator ==
    /\ state = NewState
    /\ config = Cfg(<<StoreOne>>, <<>>)
    /\ providers = {"random", "aws"}
    /\ stores = {"inprocess", "ssm"}
    /\ now = 0
    /\ pc = "ready"
    /\ err = ""
    /\ ri = 0 /\ ci = 0 /\ creds = <<>>
    /\ pi = 0 /\ i = 0
    /\ si = 0 /\ orphans = <<>>
    /\ calls = <<>>
    /\ loaded = NewState
    /\ runs = 0
    /\ cancelled = FALSE
    /\ outage = FALSE
    /\ again = "no"
    /\ earlier = <<>>
    /\ input = <<>> /\ output = <<>> /\ object = <<>>
    /\ apps = New(IntegrationIDs)

\* Time passes between two calls of the rotator.
Tick ==
    /\ pc = "ready"
    /\ now < MaxNow
    /\ now' = now + 1
    /\ UNCHANGED <<state, config, providers, stores, pc, err, ri, ci, creds, pi, i,
                   si, orphans, calls, loaded, runs, cancelled, outage, again,
                   earlier, input, output, object, apps>>

\* Rotator.CreateInstallationToken up to its call of createInstallationToken:
\* when the head app has a valid token its rate limits are queried, and the
\* call returns an error, goes on with the same head, or rotates first.
CreateInstallationToken(limits) ==
    /\ pc = "ready"
    /\ runs < MaxRuns
    /\ runs' = runs + 1
    /\ calls' = <<>>
    /\ i' = 0
    /\ input' = <<[fn |-> "CreateInstallationToken", apps |-> apps, at |-> now,
                   checked |-> hasValidToken(apps[1], now),
                   limits |-> IF hasValidToken(apps[1], now)
                              THEN <<limits>> ELSE <<>>]>>
    /\ IF hasValidToken(apps[1], now)
       THEN IF limits.err
            THEN /\ pc' = "ready"
                 /\ output' = <<[token |-> <<>>,
                                 err |-> "unexpected error getting rate limits (app='"
                                         \o apps[1].integrationID \o "')"]>>
                 /\ UNCHANGED apps
            ELSE /\ pc' = "loop"
                 /\ output' = <<>>
                 /\ apps' = IF belowCutoff(limits.Remaining) THEN rotate(apps) ELSE apps
       ELSE /\ limits = [err |-> TRUE, Remaining |-> 0]
            /\ pc' = "loop"
            /\ output' = <<>>
            /\ UNCHANGED apps
    /\ UNCHANGED <<state, config, providers, stores, now, err, ri, ci, creds, pi,
                   si, orphans, loaded, cancelled, outage, again, earlier, object>>

\* One entry of the log of a call: what the loop did with which app, and the
\* rate limit error the app had then.
Visit(op, a, kind) ==
    [op |-> op, app |-> a.integrationID, kind |-> kind,
     limited |-> a.rateLimitError, at |-> now]

\* The test of the loop of createInstallationToken on the head app.
bypassed(a, t) == hasZeroRateLimit(a, t)

\* An iteration of the loop of createInstallationToken that finds the head
\* app with hasZeroRateLimit: the app is rotated to the back.
Bypass ==
    /\ pc = "loop"
    /\ i < Len(apps)
    /\ bypassed(apps[1], now)
    /\ calls' = Append(calls, Visit("bypass", apps[1], ""))
    /\ apps' = rotate(apps)
    /\ i' = i + 1
    /\ UNCHANGED <<state, config, providers, stores, now, pc, err, ri, ci, creds, pi,
                   si, orphans, loaded, runs, cancelled, outage, again, earlier,
                   input, output, object>>

\* An iteration that calls App.CreateInstallationToken of the head app: a
\* token is stored and returned, an error is recorded and the app rotated to
\* the back.
CallApp(answer) ==
    /\ pc = "loop"
    /\ i < Len(apps)
    /\ ~bypassed(apps[1], now)
    /\ calls' = Append(calls, Visit("call", apps[1], answer.kind))
    /\ IF answer.kind = "rateLimit"
       THEN /\ apps' = rotate([apps EXCEPT ![1].token = <<>>,
                                           ![1].rateLimitError = <<answer.Reset>>])
            /\ i' = i + 1
            /\ UNCHANGED <<pc, output>>
       ELSE IF answer.kind = "error"
       THEN /\ apps' = rotate([apps EXCEPT ![1].token = <<>>,
                                           ![1].rateLimitError = <<>>])
            /\ i' = i + 1
            /\ UNCHANGED <<pc, output>>
       ELSE /\ apps' = [apps EXCEPT
                            ![1].token = <<[app |-> apps[1].integrationID,
                                            ExpiresAt |-> answer.ExpiresAt]>>,
                            ![1].rateLimitError = <<>>]
            /\ output' = <<[token |-> <<[app |-> apps[1].integrationID,
                                         ExpiresAt |-> answer.ExpiresAt]>>,
                            err |-> ""]>>
            /\ pc' = "ready"
            /\ UNCHANGED i
    /\ UNCHANGED <<state, config, providers, stores, now, err, ri, ci, creds, pi,
                   si, orphans, loaded, runs, cancelled, outage, again, earlier,
                   input, object>>

\* The loop has made len(r.apps) iterations: the call returns an error.
GiveUp ==
    /\ pc = "loop"
    /\ i >= Len(apps)
    /\ pc' = "ready"
    /\ output' = <<[token |-> <<>>, err |-> "unable to retrieve token"]>>
    /\ UNCHANGED <<state, config, providers, stores, now, err, ri, ci, creds, pi, i,
                   si, orphans, calls, loaded, runs, cancelled, outage, again,
                   earlier, input, object, apps>>

NextRotator ==
    \/ Tick
    \/ \E limits \in RateLimitResults : CreateInstallationToken(limits)
    \/ Bypass
    \/ \E answer \in AppResults(now) : CallApp(answer)
    \/ GiveUp

SpecRotator == InitRotator /\ [][NextRotator]_vars

----------------------------------------------------------------------------
(* Vocabulary of the properties *)

\* Process has returned nil.
Returned == pc = "done" /\ err = ""

\* The positions <<p, j>> of the rows of a state, the row at a position and
\* the identity key (Type, Store, ID) of a row.
Rows(s) ==
    UNION {{<<p, j>> : j \in 1..Len(s.Providers[p].Resources)} :
           p \in 1..Len(s.Providers)}
Row(s, x) == s.Providers[x[1]].Resources[x[2]]
KeyOf(row) == <<row.Type, row.Store, row.ID>>
RowsOfKey(s, K) == {x \in Rows(s) : KeyOf(Row(s, x)) = K}

\* The positions <<k, j>> of the secrets of a state and the secret at one.
Secrets(s) ==
    UNION {{<<k, j>> : j \in 1..Len(s.Stores[k].Secrets)} :
           k \in 1..Len(s.Stores)}
SecretAt(s, x) == s.Stores[x[1]].Secrets[x[2]]

\* The request at a position of the configuration, its identity key, and the
\* rotation window in force for it.
RequestAt(c, x) == c.Requests[x[1]].Credentials[x[2]]
RequestKey(c, x) == <<RequestAt(c, x).Type, c.Requests[x[1]].Store, RequestAt(c, x).Name>>
EffectiveWindow(r) ==
    IF r.RotationWindow = <<>> THEN rotationWindow ELSE r.RotationWindow[1]

\* The store type of the map of a request is enabled.
StoreEnabled(c, x) ==
    \E k \in 1..Len(c.Stores) :
        Alias(c.Stores[k]) = c.Requests[x[1]].Store /\ c.Stores[k].Type \in stores

\* The request loop processes the request: store enabled, name given,
\* provider registered.
Processed(c, x) ==
    /\ StoreEnabled(c, x)
    /\ RequestAt(c, x).Name # ""
    /\ Provider(RequestAt(c, x).Type) \in providers

\* The calls of one operation that were made for an identity key.
CallsFor(op, K) ==
    {n \in 1..Len(calls) :
        calls[n].op = op /\ <<calls[n].type, calls[n].store, calls[n].id>> = K}

\* Create returned credentials.
Succeeded(call) == ~call.err /\ call.n > 0

\* A row with its transient InUse flag left out of the comparison.
Persisted(row) == [row EXCEPT !.InUse = FALSE]

\* A row of the loaded state still has more than the rotation window of
\* request r left, and r would accept it.
ValidFor(r, row) ==
    /\ ~row.Deposed
    /\ isEqualConfig(r.Config, row.Config)
    /\ row.Expiration - now > EffectiveWindow(r)

----------------------------------------------------------------------------
(* C1 *)

\* What C1 promises for request x and the valid row y of the loaded state:
\* no Create and no Destroy for the key, and the row is still there.
SkippedAndKept(x, y) ==
    LET K == RequestKey(config, x)
    IN  /\ CallsFor("Create", K) = {}
        /\ CallsFor("Destroy", K) = {}
        /\ \E z \in RowsOfKey(state, K) :
                Persisted(Row(state, z)) = Persisted(Row(loaded, y))

\* C1 as stated: when Process returns, every request whose key matches a row
\* of the loaded state that is not deposed, has a logically equal Config and
\* more than the effective window left, saw no Create and no Destroy for its
\* key, and the row is still in the state, unchanged apart from InUse.
C1_SkipWhenValid ==
    Returned =>
        \A x \in Positions(config) :
            \A y \in RowsOfKey(loaded, RequestKey(config, x)) :
                ValidFor(RequestAt(config, x), Row(loaded, y)) => SkippedAndKept(x, y)

\* C1 amended: the same, for the requests of a map whose store type is
\* enabled (a map of a store type that is not enabled is passed over, its
\* rows are not marked in use and the sweep destroys them); and when the
\* provider of the request is registered, the row is marked in use.
C1_SkipWhenValidEnabled ==
    Returned =>
        \A x \in Positions(config) :
            \A y \in RowsOfKey(loaded, RequestKey(config, x)) :
                (StoreEnabled(config, x) /\ ValidFor(RequestAt(config, x), Row(loaded, y)))
                => /\ SkippedAndKept(x, y)
                   /\ Processed(config, x) =>
                        \A z \in RowsOfKey(state, RequestKey(config, x)) :
                            Row(state, z).InUse

\* C1 witness: Process returned after it processed a request whose valid row
\* holds other Config bytes than the request, logically equal to them.
C1_Witness ==
    /\ Returned
    /\ \E x \in Positions(config) :
        /\ Processed(config, x)
        /\ \E y \in RowsOfKey(loaded, RequestKey(config, x)) :
            /\ ValidFor(RequestAt(config, x), Row(loaded, y))
            /\ Row(loaded, y).Config # RequestAt(config, x).Config
            /\ \E z \in RowsOfKey(state, RequestKey(config, x)) : Row(state, z).InUse

----------------------------------------------------------------------------
(* C2 *)

\* C2: when Process returns and a request found exactly one row of its key in
\* the loaded state, with less than the effective window left, and Create
\* succeeded for it, then Create was called once for the key, Destroy was
\* called once for the key, on that predecessor, and the state holds one row
\* of the key, not deposed, with the Expiration of the first credential.
C2_RotateWithinWindow ==
    Returned =>
        \A x \in Positions(config) :
            LET K == RequestKey(config, x)
                r == RequestAt(config, x)
                old == RowsOfKey(loaded, K)
            IN  (/\ Cardinality(old) = 1
                 /\ \A y \in old : Row(loaded, y).Expiration - now < EffectiveWindow(r)
                 /\ \E n \in CallsFor("Create", K) : Succeeded(calls[n]))
                => /\ Cardinality(CallsFor("Create", K)) = 1
                   /\ Cardinality(CallsFor("Destroy", K)) = 1
                   /\ \A n \in CallsFor("Destroy", K) : \A y \in old :
                        /\ calls[n].exp = Row(loaded, y).Expiration
                        /\ calls[n].deposed
                        /\ \A c \in CallsFor("Create", K) : c < n
                   /\ Cardinality(RowsOfKey(state, K)) = 1
                   /\ \A z \in RowsOfKey(state, K) :
                        /\ ~Row(state, z).Deposed
                        /\ \A c \in CallsFor("Create", K) :
                                Row(state, z).Expiration = calls[c].exp

\* C2 witness: Process returned after a rotation whose Create returned
\* several credentials, the predecessor being destroyed.
C2_Witness ==
    /\ Returned
    /\ \E x \in Positions(config) :
        LET K == RequestKey(config, x)
        IN  /\ Cardinality(RowsOfKey(loaded, K)) = 1
            /\ \A y \in RowsOfKey(loaded, K) :
                    Row(loaded, y).Expiration - now < EffectiveWindow(RequestAt(config, x))
            /\ \E n \in CallsFor("Create", K) : calls[n].n > 1
            /\ CallsFor("Destroy", K) # {}

----------------------------------------------------------------------------
(* C3 *)

\* C3: when Process returns, a processed request with a row of its key in the
\* loaded state that is not deposed and has a logically equal Config was
\* handed to Create exactly when the row's Expiration minus the window of the
\* request (its own RotationWindow when set, the global one otherwise) lies
\* before now; and when it was not, nothing of its key was destroyed.
C3_RotationWindowOverride ==
    Returned =>
        \A x \in Positions(config) :
            LET K == RequestKey(config, x)
                r == RequestAt(config, x)
                own == EffectiveWindow(r)
            IN  Processed(config, x) =>
                    \A y \in RowsOfKey(loaded, K) :
                        (~Row(loaded, y).Deposed
                            /\ isEqualConfig(r.Config, Row(loaded, y).Config))
                        => /\ (CallsFor("Create", K) # {})
                                <=> (Row(loaded, y).Expiration - own < now)
                           /\ (CallsFor("Create", K) = {})
                                => CallsFor("Destroy", K) = {}

\* C3 witness: a request with a window of its own that is wider than the
\* global one was rotated although its row was valid by the global window.
C3_Witness ==
    /\ Returned
    /\ \E x \in Positions(config) :
        LET K == RequestKey(config, x)
            r == RequestAt(config, x)
        IN  /\ Processed(config, x)
            /\ r.RotationWindow # <<>>
            /\ r.RotationWindow[1] > rotationWindow
            /\ \E y \in RowsOfKey(loaded, K) :
                /\ isEqualConfig(r.Config, Row(loaded, y).Config)
                /\ Row(loaded, y).Expiration - rotationWindow >= now
                /\ Row(loaded, y).Expiration - r.RotationWindow[1] < now
            /\ \E n \in CallsFor("Create", K) : Succeeded(calls[n])
            /\ CallsFor("Destroy", K) # {}

----------------------------------------------------------------------------
(* C4 *)

\* No request of the configuration has the key of the row.
Unrequested(c, row) == \A x \in Positions(c) : RequestKey(c, x) # KeyOf(row)

\* C4: when Process returns, every row of the loaded state whose key no
\* request of the manifest has, and whose provider-entry is of a registered
\* type, was passed to Destroy and no row of its key is left in the state.
C4_UnrequestedCollected ==
    Returned =>
        \A y \in Rows(loaded) :
            (/\ Unrequested(config, Row(loaded, y))
             /\ loaded.Providers[y[1]].Type \in providers)
            => /\ \E n \in CallsFor("Destroy", KeyOf(Row(loaded, y))) :
                    /\ calls[n].exp = Row(loaded, y).Expiration
                    /\ calls[n].deposed = Row(loaded, y).Deposed
               /\ RowsOfKey(state, KeyOf(Row(loaded, y))) = {}

\* C4 witness: an unrequested row that expires in the future was destroyed
\* and is gone when Process returns.
C4_Witness ==
    /\ Returned
    /\ \E y \in Rows(loaded) :
        /\ Unrequested(config, Row(loaded, y))
        /\ Row(loaded, y).Expiration > now + rotationWindow
        /\ CallsFor("Destroy", KeyOf(Row(loaded, y))) # {}
        /\ RowsOfKey(state, KeyOf(Row(loaded, y))) = {}

----------------------------------------------------------------------------
(* C5 *)

----------------------------------------------------------------------------
(* C6 *)

\* C6 (P5): when Process returns, no row of the state is deposed.
C6_DeposedClosure ==
    Returned => \A x \in Rows(state) : ~Row(state, x).Deposed

\* C6 witness: Process returned after it destroyed a deposed row.
C6_Witness ==
    /\ Returned
    /\ \E n \in 1..Len(calls) : calls[n].op = "Destroy" /\ calls[n].deposed

----------------------------------------------------------------------------
(* C7 *)

\* C7: after every cycle, and when Process returns, a provider-entry holds
\* at most one row per identity key that is not deposed.
C7_OneLivePerKey ==
    pc \in {"idle", "done"} =>
        \A x, y \in Rows(state) :
            (/\ x # y
             /\ x[1] = y[1]
             /\ KeyOf(Row(state, x)) = KeyOf(Row(state, y)))
            => Row(state, x).Deposed \/ Row(state, y).Deposed

\* C7 witness: a later run has replaced the row of a key by a new one.
C7_Witness ==
    /\ Returned
    /\ runs > 1
    /\ \E x \in Rows(state) :
        /\ ~Row(state, x).Deposed
        /\ RowsOfKey(loaded, KeyOf(Row(state, x))) # {}
        /\ \E n \in CallsFor("Create", KeyOf(Row(state, x))) : Succeeded(calls[n])

----------------------------------------------------------------------------
(* C8 *)

\* The request is satisfied in this run: Create succeeded for it, or a row of
\* the loaded state was valid for it.
Satisfied(x) ==
    \/ \E n \in CallsFor("Create", RequestKey(config, x)) : Succeeded(calls[n])
    \/ /\ Processed(config, x)
       /\ \E y \in RowsOfKey(loaded, RequestKey(config, x)) :
            hasValidCredentials(RequestAt(config, x), Row(loaded, y), rotationWindow, now)

----------------------------------------------------------------------------
(* C9 *)

\* C9: when Process returns, a request whose provider type is not registered
\* has caused no Create, no Destroy and no Write for its key; the
\* provider-entries of that type are as they were loaded, and there are no
\* others; the store-entry of its store holds no secret for its name that
\* was not loaded, and still holds the loaded ones when the key has a row.
C9_ProviderMissing ==
    Returned =>
        \A x \in Positions(config) :
            LET K == RequestKey(config, x)
                t == Provider(RequestAt(config, x).Type)
            IN  t \notin providers =>
                /\ CallsFor("Create", K) = {}
                /\ CallsFor("Destroy", K) = {}
                /\ CallsFor("Write", K) = {}
                /\ \A p \in 1..Len(state.Providers) :
                        state.Providers[p].Type = t
                        => /\ p <= Len(loaded.Providers)
                           /\ state.Providers[p] = loaded.Providers[p]
                /\ \A z \in Secrets(state) :
                        (/\ Alias(state.Stores[z[1]].StoreConfig) = K[2]
                         /\ SecretAt(state, z).ResourceID = K[3])
                        => \E w \in Secrets(loaded) :
                            /\ loaded.Stores[w[1]].StoreConfig = state.Stores[z[1]].StoreConfig
                            /\ SecretAt(loaded, w) = SecretAt(state, z)
                /\ RowsOfKey(loaded, K) # {} =>
                    \A w \in Secrets(loaded) :
                        (/\ Alias(loaded.Stores[w[1]].StoreConfig) = K[2]
                         /\ SecretAt(loaded, w).ResourceID = K[3])
                        => \E z \in Secrets(state) :
                            /\ state.Stores[z[1]].StoreConfig = loaded.Stores[w[1]].StoreConfig
                            /\ SecretAt(state, z) = SecretAt(loaded, w)

\* C9 witness: Process returned with a request of an enabled store whose
\* provider is not registered, and the row of its key is where it was.
C9_Witness ==
    /\ Returned
    /\ \E x \in Positions(config) :
        /\ StoreEnabled(config, x)
        /\ Provider(RequestAt(config, x).Type) \notin providers
        /\ RowsOfKey(loaded, RequestKey(config, x)) # {}
        /\ RowsOfKey(state, RequestKey(config, x)) = RowsOfKey(loaded, RequestKey(config, x))

----------------------------------------------------------------------------
(* C10 *)

\* The rows of a key, in the order of the ledger, without the InUse flag.
PersistedOfKey(s, K) ==
    LET rows == GetResourcesByID(s, K[1], K[3], K[2])
    IN  [j \in 1..Len(rows) |-> Persisted(rows[j])]

\* C10: when Process returns, a request whose Create returned an error or no
\* credentials has the rows of its key as they were loaded (none added, none
\* deposed, none removed), all in use; nothing of its key was destroyed or
\* written, Create was not called again for it, and every later request the
\* loop processes was handed to Create or had a valid row.
C10_FailedCreate ==
    Returned =>
        \A x \in Positions(config) :
            LET K == RequestKey(config, x)
            IN  (\E n \in CallsFor("Create", K) : ~Succeeded(calls[n]))
                => /\ PersistedOfKey(state, K) = PersistedOfKey(loaded, K)
                   /\ \A z \in RowsOfKey(state, K) : Row(state, z).InUse
                   /\ Cardinality(RowsOfKey(state, K)) = Cardinality(RowsOfKey(loaded, K))
                   /\ CallsFor("Destroy", K) = {}
                   /\ CallsFor("Write", K) = {}
                   /\ Cardinality(CallsFor("Create", K)) = 1
                   /\ \A y \in Positions(config) :
                        (Before(x, y) /\ Processed(config, y))
                        => \/ CallsFor("Create", RequestKey(config, y)) # {}
                           \/ Satisfied(y)

\* C10 witness: Create failed for a request whose row is expiring, the row
\* is still there, and a later request was handed to Create.
C10_Witness ==
    /\ Returned
    /\ \E x \in Positions(config) :
        LET K == RequestKey(config, x)
        IN  /\ \E n \in CallsFor("Create", K) : ~Succeeded(calls[n])
            /\ RowsOfKey(loaded, K) # {}
            /\ RowsOfKey(state, K) # {}
            /\ \E y \in Positions(config) :
                /\ Before(x, y)
                /\ \E n \in CallsFor("Create", RequestKey(config, y)) :
                    \A m \in CallsFor("Create", K) : m < n

----------------------------------------------------------------------------
(* C11 *)

\* The secrets of the store-entries of alias a.
SecretsOfAlias(s, a) ==
    {SecretAt(s, z) : z \in {y \in Secrets(s) : Alias(s.Stores[y[1]].StoreConfig) = a}}

\* C11: when Process returns, a request whose Create returned n credentials
\* has a row that is not deposed with the Expiration Create returned, whether
\* its Writes failed or not; Write was called once for each of the n
\* credentials; the secret of every Write that succeeded is in the store-entry;
\* and a secret with the path of a Write that failed is there only if it was
\* loaded.
C11_FailedWriteLocal ==
    Returned =>
        \A x \in Positions(config) :
            LET K == RequestKey(config, x)
            IN  \A m \in CallsFor("Create", K) :
                    Succeeded(calls[m]) =>
                    /\ \E z \in RowsOfKey(state, K) :
                        /\ ~Row(state, z).Deposed
                        /\ Row(state, z).Expiration = calls[m].exp
                    /\ Cardinality(CallsFor("Write", K)) = calls[m].n
                    /\ Cardinality({calls[w].path : w \in CallsFor("Write", K)}) = calls[m].n
                    /\ \A w \in CallsFor("Write", K) :
                        /\ m < w
                        /\ ~calls[w].err =>
                            newSecret(K[3], calls[w].path, calls[w].exp)
                                \in SecretsOfAlias(state, K[2])
                        /\ calls[w].err =>
                            \A sec \in SecretsOfAlias(state, K[2]) :
                                sec.Path = calls[w].path
                                => sec \in SecretsOfAlias(loaded, K[2])

\* C11 witness: of the two credentials of one Create the first Write failed
\* and the second succeeded, and Process returned with the row and the one
\* secret.
C11_Witness ==
    /\ Returned
    /\ \E x \in Positions(config) :
        LET K == RequestKey(config, x)
        IN  /\ RowsOfKey(state, K) # {}
            /\ \E v, w \in CallsFor("Write", K) :
                /\ v < w
                /\ calls[v].err /\ ~calls[w].err
                /\ newSecret(K[3], calls[w].path, calls[w].exp)
                        \in SecretsOfAlias(state, K[2])
                /\ \A sec \in SecretsOfAlias(state, K[2]) : sec.Path # calls[v].path

----------------------------------------------------------------------------
(* C12 *)

\* The loaded state holds a row of the request's key that is not deposed, but
\* no secret for it in the store-entries of the request's store: what a run
\* leaves behind whose Writes for the request all failed.
WriteOutstanding(x) ==
    LET K == RequestKey(config, x)
    IN  /\ \E y \in RowsOfKey(loaded, K) : ~Row(loaded, y).Deposed
        /\ \A sec \in SecretsOfAlias(loaded, K[2]) : sec.ResourceID # K[3]

\* C12: when Process returns, a processed request whose resource was loaded
\* without a secret has had a Store.Write when the resource is valid for it,
\* and a Create when no loaded row is.
C12_RecoveryAfterFailedWrite ==
    Returned =>
        \A x \in Positions(config) :
            LET K == RequestKey(config, x)
                r == RequestAt(config, x)
            IN  (Processed(config, x) /\ WriteOutstanding(x)) =>
                IF \E y \in RowsOfKey(loaded, K) :
                        hasValidCredentials(r, Row(loaded, y), rotationWindow, now)
                THEN CallsFor("Write", K) # {}
                ELSE CallsFor("Create", K) # {}

----------------------------------------------------------------------------
(* C13 *)

\* The row was added in this run: no loaded row has its key, Config and
\* Expiration.
AddedRow(row) ==
    \A y \in Rows(loaded) :
        \/ KeyOf(Row(loaded, y)) # KeyOf(row)
        \/ Row(loaded, y).Config # row.Config
        \/ Row(loaded, y).Expiration # row.Expiration

\* C13: at every point of a run, a row that was not loaded has the key and
\* the Expiration of a Create that returned credentials, and there are no more
\* rows of a key than were loaded plus such Creates; a secret that was not
\* loaded has the store, resource ID, path and Expiration of a Write that
\* returned no error; and every Write for a key comes after a Create for that
\* key that returned credentials.
C13_LedgerFollowsSuccess ==
    pc # "idle" =>
        /\ \A z \in Rows(state) :
            LET row == Row(state, z)
            IN  /\ AddedRow(row) =>
                    \E m \in CallsFor("Create", KeyOf(row)) :
                        Succeeded(calls[m]) /\ calls[m].exp = row.Expiration
                /\ Cardinality(RowsOfKey(state, KeyOf(row)))
                    <= Cardinality(RowsOfKey(loaded, KeyOf(row)))
                       + Cardinality({m \in CallsFor("Create", KeyOf(row)) :
                                        Succeeded(calls[m])})
        /\ \A z \in Secrets(state) :
            LET sec == SecretAt(state, z)
                a == Alias(state.Stores[z[1]].StoreConfig)
            IN  sec \notin SecretsOfAlias(loaded, a) =>
                    \E w \in 1..Len(calls) :
                        /\ calls[w].op = "Write" /\ ~calls[w].err
                        /\ calls[w].store = a
                        /\ calls[w].id = sec.ResourceID
                        /\ calls[w].path = sec.Path
                        /\ calls[w].exp = sec.Expiration
        /\ \A w \in 1..Len(calls) :
            calls[w].op = "Write" =>
                \E m \in 1..(w - 1) :
                    /\ calls[m].op = "Create" /\ Succeeded(calls[m])
                    /\ calls[m].type = calls[w].type
                    /\ calls[m].store = calls[w].store
                    /\ calls[m].id = calls[w].id

\* C13 witness: between the two Writes of one Create, the first of which
\* failed: the row is in the ledger and no secret has been added.
C13_Witness ==
    /\ pc = "write"
    /\ \E w \in 1..Len(calls) : calls[w].op = "Write" /\ calls[w].err
    /\ \E z \in Rows(state) : AddedRow(Row(state, z))
    /\ \A z \in Secrets(state) :
        SecretAt(state, z) \in SecretsOfAlias(loaded, Alias(state.Stores[z[1]].StoreConfig))

----------------------------------------------------------------------------
(* C14 *)

\* The Destroy calls made for a row with this key, Expiration and Deposed.
DestroysOf(K, expiration, deposed) ==
    {n \in CallsFor("Destroy", K) :
        calls[n].exp = expiration /\ calls[n].deposed = deposed}

\* C14: when Process returns, no row has been passed to Destroy twice, and
\* every loaded row that is gone from the ledger has been passed to Destroy
\* (as it was loaded, or deposed by this run).
C14_DestroyOncePerRow ==
    Returned =>
        /\ \A n, m \in 1..Len(calls) :
            (calls[n].op = "Destroy" /\ calls[m].op = "Destroy" /\ n # m)
            => [calls[n] EXCEPT !.err = FALSE] # [calls[m] EXCEPT !.err = FALSE]
        /\ \A y \in Rows(loaded) :
            LET row == Row(loaded, y)
            IN  (\A z \in Rows(state) :
                    Persisted([Row(state, z) EXCEPT !.Deposed = row.Deposed]) # row)
                => \/ DestroysOf(KeyOf(row), row.Expiration, row.Deposed) # {}
                   \/ DestroysOf(KeyOf(row), row.Expiration, TRUE) # {}

----------------------------------------------------------------------------
(* C15 *)

\* C15: when Process returns, a row whose Destroy returned an error is gone
\* from the ledger and was passed to Destroy once, and no row is left that the
\* sweep destroys (deposed or not in use, provider registered); a secret whose
\* Delete returned an error is gone from its store-entry and was passed to
\* Delete once, and no orphan is left in a store-entry whose store type is
\* registered.
C15_SweepErrorsRemoveRows ==
    Returned =>
        /\ \A n \in 1..Len(calls) :
            (calls[n].op = "Destroy" /\ calls[n].err) =>
                LET K == <<calls[n].type, calls[n].store, calls[n].id>>
                IN  /\ \A z \in RowsOfKey(state, K) :
                        \/ Row(state, z).Expiration # calls[n].exp
                        \/ Row(state, z).Deposed # calls[n].deposed
                    /\ Cardinality(DestroysOf(K, calls[n].exp, calls[n].deposed)) = 1
        /\ \A z \in Rows(state) :
            providerConfigured(providers, state.Providers[z[1]].Type)
            => Row(state, z).InUse /\ ~Row(state, z).Deposed
        /\ \A n \in 1..Len(calls) :
            (calls[n].op = "Delete" /\ calls[n].err) =>
                /\ \A sec \in SecretsOfAlias(state, calls[n].store) :
                        sec.Path # calls[n].path
                /\ Cardinality({m \in 1..Len(calls) :
                        /\ calls[m].op = "Delete"
                        /\ calls[m].store = calls[n].store
                        /\ calls[m].path = calls[n].path}) = 1
        /\ \A k \in 1..Len(state.Stores) :
            state.Stores[k].StoreConfig.Type \in stores
            => ListOrphanedSecrets(state, state.Stores[k].StoreConfig) = <<>>

\* C15 witness: the first Destroy and the first Delete of a run returned
\* errors, a Destroy and a Delete after them did not, and Process returned
\* with an empty ledger.
C15_Witness ==
    /\ Returned
    /\ Rows(state) = {} /\ Secrets(state) = {}
    /\ \E n, m \in 1..Len(calls) :
        /\ n < m
        /\ calls[n].op = "Destroy" /\ calls[n].err
        /\ calls[m].op = "Destroy" /\ ~calls[m].err
    /\ \E n, m \in 1..Len(calls) :
        /\ n < m
        /\ calls[n].op = "Delete" /\ calls[n].err
        /\ calls[m].op = "Delete" /\ ~calls[m].err

----------------------------------------------------------------------------
(* C16 *)

\* C16: when Process returns, every provider-entry whose provider type is not
\* registered is as it was loaded and no Destroy was called for a row of it;
\* every store-entry whose store type is not registered is as it was loaded
\* and no Delete was called for a secret of it.
C16_UnregisteredLeftAlone ==
    Returned =>
        /\ \A p \in 1..Len(loaded.Providers) :
            loaded.Providers[p].Type \notin providers
            => /\ state.Providers[p] = loaded.Providers[p]
               /\ \A n \in 1..Len(calls) :
                    calls[n].op = "Destroy"
                    => Provider(calls[n].type) # loaded.Providers[p].Type
        /\ \A k \in 1..Len(loaded.Stores) :
            loaded.Stores[k].StoreConfig.Type \notin stores
            => /\ state.Stores[k] = loaded.Stores[k]
               /\ \A n \in 1..Len(calls) :
                    calls[n].op = "Delete"
                    => calls[n].type # loaded.Stores[k].StoreConfig.Type

\* C16 witness: Process returned after a sweep that destroyed the resource
\* of a secret whose store type is not registered, with that orphan and a row
\* of a provider type that is not registered, deposed or not in use, still in
\* the state.
C16_Witness ==
    /\ Returned
    /\ \E n \in 1..Len(calls) : calls[n].op = "Destroy"
    /\ \E z \in Rows(state) :
        /\ state.Providers[z[1]].Type \notin providers
        /\ ~Row(state, z).InUse
    /\ \E z \in Secrets(state) :
        /\ state.Stores[z[1]].StoreConfig.Type \notin stores
        /\ SecretAt(state, z).ResourceID \notin ResourceIDs(state)

----------------------------------------------------------------------------
(* C17 *)

\* C17: no call to a provider or a store is made with a context that is
\* already cancelled.
C17_CancellationHonoured ==
    \A n \in 1..Len(calls) : ~calls[n].ctx

----------------------------------------------------------------------------
(* C18 *)

----------------------------------------------------------------------------
(* C19 *)

----------------------------------------------------------------------------
(* C20 *)

\* C20 as stated (P6): when Process returns, every row that is not deposed
\* and whose key is the key of a request has a Config logically equal to the
\* Config of that request.
C20_ConfigMatch ==
    Returned =>
        \A x \in Positions(config) :
            \A z \in RowsOfKey(state, RequestKey(config, x)) :
                ~Row(state, z).Deposed
                => isEqualConfig(Row(state, z).Config, RequestAt(config, x).Config)

\* C20 amended: the same for the requests Process processed and for which no
\* Create returned an error or no credentials.
C20_ConfigMatchProcessed ==
    Returned =>
        \A x \in Positions(config) :
            LET K == RequestKey(config, x)
            IN  (/\ Processed(config, x)
                 /\ \A m \in CallsFor("Create", K) : Succeeded(calls[m]))
                => \A z \in RowsOfKey(state, K) :
                    ~Row(state, z).Deposed
                    => isEqualConfig(Row(state, z).Config, RequestAt(config, x).Config)

\* C20 witness: Process returned after it replaced a row whose Config was not
\* that of the request by one whose Config is.
C20_Witness ==
    /\ Returned
    /\ \E x \in Positions(config) :
        LET K == RequestKey(config, x)
            r == RequestAt(config, x)
        IN  /\ \E y \in RowsOfKey(loaded, K) :
                /\ ~isEqualConfig(Row(loaded, y).Config, r.Config)
                /\ now < Row(loaded, y).Expiration - EffectiveWindow(r)
            /\ \E m \in CallsFor("Create", K) : Succeeded(calls[m])
            /\ \E z \in RowsOfKey(state, K) :
                isEqualConfig(Row(state, z).Config, r.Config)

----------------------------------------------------------------------------
(* C21 *)

----------------------------------------------------------------------------
(* C22 *)

\* Validate was called on configuration input[1].config and returned
\* output[1].
Validated == input # <<>> /\ input[1].fn = "Validate"

\* The visits of flattened requests that share the pair (store alias, name)
\* with a request visited sooner.
Duplicates(c) ==
    {a \in Visits(c) :
        /\ a[3] > 0
        /\ \E b \in Visits(c) :
            /\ b[3] > 0 /\ Sooner(b, a)
            /\ c.Requests[b[1]].Store = c.Requests[a[1]].Store
            /\ Visited(c, b).Name = Visited(c, a).Name}

\* Nothing but duplicates is wrong with the configuration up to visit d.
OnlyDuplicatesBefore(c, d) ==
    /\ c.Namespace # "" /\ Len(c.Stores) > 0 /\ FirstBadStore(c) = <<>>
    /\ Visited(c, d).Type \in CredentialTypes
    /\ \A a \in Visits(c) :
        Sooner(a, d) =>
            /\ a[2] = 0 => \E k \in 1..Len(c.Stores) :
                                Alias(c.Stores[k]) = c.Requests[a[1]].Store
            /\ (a[2] > 0 /\ a[3] = 0) => validate(c.Requests[a[1]].Creds[a[2]]) = ""
            /\ a[3] > 0 => /\ Visited(c, a).Type \in CredentialTypes
                           /\ a \notin Duplicates(c)

\* C22: Validate returns an error for every configuration in which two
\* flattened requests share the pair (store alias, name), in one request map
\* or in two and whatever their types; when nothing else is wrong before the
\* first such request, the error is `requests[i]: creds[j]: duplicated
\* request {store:<alias> name:<name>}` with the index i of its request map
\* and the index j of its creds entry.
C22_DuplicateRequests ==
    Validated =>
        LET c == input[1].config
        IN  /\ Duplicates(c) # {} => output[1] # ""
            /\ \A d \in Duplicates(c) :
                OnlyDuplicatesBefore(c, d) =>
                    output[1] = "requests[" \o ToString(d[1] - 1) \o "]: creds["
                        \o ToString(d[2] - 1) \o "]: duplicated request {store:"
                        \o c.Requests[d[1]].Store \o " name:"
                        \o Visited(c, d).Name \o "}"

\* C22 witness: Validate returned the error for a request that repeats, under
\* another type, the name of an element of a list with two elements in the
\* same creds, so that its creds index is not its index among the flattened
\* requests.
C22_Witness ==
    /\ Validated
    /\ LET c == input[1].config
       IN  \E d \in Duplicates(c) :
            /\ OnlyDuplicatesBefore(c, d)
            /\ d[2] = 2
            /\ Len(c.Requests[d[1]].Creds[1].List) = 2
            /\ Visited(c, d).Type # c.Requests[d[1]].Creds[1].Type
            /\ output[1] = "requests[0]: creds[1]: duplicated request {store:inprocess name:a}"

----------------------------------------------------------------------------
(* C23 *)

\* C23: from the moment Process is called with a configuration that Validate
\* rejects, it has returned the error of Validate prefixed with
\* "invalid config: ", no provider or store was called, and the state is the
\* state it was handed, InUse flags included.
C23_InvalidConfigAborts ==
    (pc # "idle" /\ Validate(config) # "") =>
        /\ pc = "done"
        /\ err = "invalid config: " \o Validate(config)
        /\ calls = <<>>
        /\ state = loaded

\* C23 witness: Process returned the error for a configuration whose two
\* requests would both have been handed to registered providers, with a
\* state that holds a row and a secret.
C23_Witness ==
    /\ pc = "done"
    /\ Validate(config) # ""
    /\ err = "invalid config: requests[0]: creds[1]: duplicated request {store:inprocess name:a}"
    /\ \A x \in Positions(config) :
        Provider(RequestAt(config, x).Type) \in providers /\ StoreEnabled(config, x)
    /\ Rows(state) # {}
    /\ Secrets(state) # {}

----------------------------------------------------------------------------
(* C24 *)

\* Requests was called on configuration input[1].config and returned
\* output[1].
Requested == input # <<>> /\ input[1].fn = "Requests"

\* The entries <<m, ii>> of a configuration.
EntriesOf(c) ==
    UNION {{<<m, ii>> : ii \in 1..Len(c.Requests[m].Creds)} :
           m \in 1..Len(c.Requests)}

\* The number of requests the entries of cs before entry ii flatten into.
RECURSIVE Offset(_, _)
Offset(cs, ii) ==
    IF ii <= 1 THEN 0
    ELSE Offset(cs, ii - 1)
         + (IF Len(cs[ii - 1].List) = 0 THEN 1 ELSE Len(cs[ii - 1].List))

\* The number of requests all entries of cs flatten into.
Flat(cs) == Offset(cs, Len(cs) + 1)

\* C24: Requests returns, for every request map, one request per list element
\* of an entry with a list, in list order, with the element's Name, Config
\* and RotationWindow and the Type of the parent, and exactly one request,
\* the inlined one, for an entry without a list, all in the order of the
\* entries; and Validate returns an error when an entry with a list has a
\* parent Name, a parent Config or an element with a Type (when nothing is
\* wrong before that entry, the error of validate() for it).
C24_ListShorthand ==
    /\ Requested =>
        LET c == input[1].config
        IN  /\ Len(output[1]) = Len(c.Requests)
            /\ \A m \in 1..Len(c.Requests) :
                LET cs == c.Requests[m].Creds
                    out == output[1][m].Credentials
                IN  /\ output[1][m].Store = c.Requests[m].Store
                    /\ Len(out) = Flat(cs)
                    /\ \A ii \in 1..Len(cs) :
                        IF Len(cs[ii].List) = 0
                        THEN out[Offset(cs, ii) + 1]
                                = Req(cs[ii].Type, cs[ii].Name,
                                      cs[ii].RotationWindow, cs[ii].Config)
                        ELSE \A k \in 1..Len(cs[ii].List) :
                                LET r == out[Offset(cs, ii) + k]
                                IN  /\ r.Type = cs[ii].Type
                                    /\ r.Name = cs[ii].List[k].Name
                                    /\ r.Config = cs[ii].List[k].Config
                                    /\ r.RotationWindow = cs[ii].List[k].RotationWindow
    /\ Validated =>
        LET c == input[1].config
            Malformed(e) ==
                /\ Len(c.Requests[e[1]].Creds[e[2]].List) > 0
                /\ \/ c.Requests[e[1]].Creds[e[2]].Name # ""
                   \/ c.Requests[e[1]].Creds[e[2]].Config # ""
                   \/ \E k \in 1..Len(c.Requests[e[1]].Creds[e[2]].List) :
                        c.Requests[e[1]].Creds[e[2]].List[k].Type # ""
        IN  \A e \in EntriesOf(c) :
                Malformed(e) =>
                    /\ output[1] # ""
                    /\ (/\ FirstBadStore(c) = <<>>
                        /\ \A a \in Visits(c) : Sooner(a, <<e[1], e[2], 0>>) => ~Fails(c, a))
                       => \E what \in {Quote("name") \o " should not be specified for lists",
                                       Quote("config") \o " should not be specified for lists",
                                       "list entry[0]: request should not include " \o Quote("type"),
                                       "list entry[1]: request should not include " \o Quote("type")} :
                            output[1] = "requests[" \o ToString(e[1] - 1) \o "]: creds["
                                            \o ToString(e[2] - 1) \o "]: " \o what

\* C24 witness: Requests flattened a list of two elements that follows a plain
\* entry in a configuration nothing was called on before.
C24_Witness ==
    /\ Requested
    /\ input[1].config \in Parsed
    /\ Len(input[1].config.Requests) = 1
    /\ LET cs == input[1].config.Requests[1].Creds
       IN  /\ Len(cs) = 2
           /\ Len(cs[1].List) = 0
           /\ Len(cs[2].List) = 2
           /\ cs[2].List[1].Type = "" /\ cs[2].List[2].Type = ""
           /\ Len(output[1][1].Credentials) = 3
           /\ output[1][1].Credentials[3].Type = cs[2].Type

----------------------------------------------------------------------------
(* C25 *)

\* The StoreType constants of package sidecred.
StoreTypeConstants ==
    {"inprocess", "secretsmanager", "ssm", "github", "github:dependabot"}

\* C25: Validate returns no error for a configuration with a namespace, whose
\* stores all have one of the five StoreType constants as their type and
\* distinct aliases, and whose requests it accepts; and for a configuration
\* whose first store in error has another type, it returns
\* `stores[i]: unknown type` with the index of that store and the type.
C25_StoreTypesAccepted ==
    Validated =>
        LET c == input[1].config
            Known(k) == c.Stores[k].Type \in StoreTypeConstants
            Distinct(k) == Alias(c.Stores[k]) \notin AliasesBefore(c, k)
        IN  /\ (/\ c.Namespace # "" /\ Len(c.Stores) > 0
                /\ \A k \in 1..Len(c.Stores) : Known(k) /\ Distinct(k)
                /\ FirstFailure(c) = <<>>)
               => output[1] = ""
            /\ \A k \in 1..Len(c.Stores) :
                (/\ c.Namespace # ""
                 /\ ~Known(k)
                 /\ \A h \in 1..(k - 1) : Known(h) /\ Distinct(h))
                => output[1] = "stores[" \o ToString(k - 1) \o "]: unknown type "
                                \o Quote(c.Stores[k].Type)

----------------------------------------------------------------------------
(* C26 *)

\* Load has returned output[1] for a call made after Save of `state` had
\* returned, and nothing failed.
LoadedAfterSave ==
    /\ output # <<>>
    /\ output[1].during = "done"
    /\ ~output[1].failure

\* A state with InUse false on every resource.
WithoutInUse(s) ==
    [s EXCEPT !.Providers =
        [p \in 1..Len(@) |->
            [@[p] EXCEPT !.Resources =
                [j \in 1..Len(@) |-> [@[j] EXCEPT !.InUse = FALSE]]]]]

\* C26 as stated (P7): the state loaded after a Save is the saved state with
\* InUse false on every resource, and equal to it in everything else.
C26_RoundTrip ==
    LoadedAfterSave =>
        /\ output[1].err = ""
        /\ output[1].state = WithoutInUse(state)

\* C26 amended: the loaded state has the provider-entries and store-entries of
\* the saved state in the same order, those with an empty list included, each
\* with the same resources and secrets in the same order; every field of a
\* secret and every field of a resource is equal but InUse, which is false
\* when loaded, and Config, which is loaded in compact form and is logically
\* equal.
C26_RoundTripCompact ==
    LoadedAfterSave =>
        LET L == output[1].state
        IN  /\ output[1].err = ""
            /\ Len(L.Providers) = Len(state.Providers)
            /\ Len(L.Stores) = Len(state.Stores)
            /\ \A p \in 1..Len(state.Providers) :
                /\ L.Providers[p].Type = state.Providers[p].Type
                /\ Len(L.Providers[p].Resources) = Len(state.Providers[p].Resources)
                /\ \A j \in 1..Len(state.Providers[p].Resources) :
                    LET l == L.Providers[p].Resources[j]
                        r == state.Providers[p].Resources[j]
                    IN  /\ l.Type = r.Type /\ l.ID = r.ID /\ l.Store = r.Store
                        /\ l.Expiration = r.Expiration /\ l.Deposed = r.Deposed
                        /\ ~l.InUse
                        /\ l.Config = compact(r.Config)
                        /\ isEqualConfig(l.Config, r.Config)
            /\ \A k \in 1..Len(state.Stores) :
                /\ L.Stores[k].StoreConfig.Type = state.Stores[k].StoreConfig.Type
                /\ L.Stores[k].StoreConfig.Name = state.Stores[k].StoreConfig.Name
                /\ L.Stores[k].StoreConfig.Config
                    = compact(state.Stores[k].StoreConfig.Config)
                /\ L.Stores[k].Secrets = state.Stores[k].Secrets

\* C26 witness: Load returned a state after Save of a state with a
\* provider-entry and a store-entry whose lists are empty and with a resource
\* in use.
C26_Witness ==
    /\ LoadedAfterSave
    /\ \E p \in 1..Len(state.Providers) : state.Providers[p].Resources = <<>>
    /\ \E k \in 1..Len(state.Stores) : state.Stores[k].Secrets = <<>>
    /\ \E x \in Rows(state) : Row(state, x).InUse /\ ~Row(output[1].state, x).InUse
    /\ \E k \in 1..Len(state.Stores) : state.Stores[k].Secrets # <<>>

----------------------------------------------------------------------------
(* C27 *)

\* C27: Load returns an empty State and no error when there is no object at
\* the path (file backend: no file, or an empty one; s3 backend: NoSuchKey)
\* and nothing else fails; and it returns an error only when something else
\* fails or the document is not complete.
C27_LoadNotFound ==
    output # <<>> =>
        LET found == output[1].found
        IN  /\ (/\ ~output[1].failure
                /\ \/ ~found.exists
                   \/ found.backend = "file" /\ found.size = 0)
               => output[1].err = "" /\ output[1].state = NewState
            /\ output[1].err # ""
               => \/ output[1].failure
                  \/ found.exists /\ 0 < found.size /\ found.size < Chunks

\* C27 witness: Load of the s3 backend returned for a path with no object,
\* while the process holds a state that is not empty.
C27_Witness ==
    /\ output # <<>>
    /\ output[1].found.backend = "s3"
    /\ ~output[1].found.exists
    /\ ~output[1].failure
    /\ output[1].err = ""
    /\ output[1].state = NewState
    /\ state # NewState

----------------------------------------------------------------------------
(* C28 *)

\* C28: a Load called while Save is in progress, or after Save was
\* interrupted, returns no error and either the state that was there before
\* the Save or the state that is being saved.
C28_SaveAtomic ==
    (/\ output # <<>>
     /\ output[1].during \in {"running", "interrupted"}
     /\ ~output[1].failure)
    => /\ output[1].err = ""
       /\ \/ output[1].state = Load(input[1].old, FALSE).state
          \/ output[1].state = Reload(state)

----------------------------------------------------------------------------
(* C29 *)

\* C29: in one cycle of runFunc, an error of Load makes runFunc return an
\* error without calling Process; Save is called when Process has returned
\* nil; and an error of Save is returned by runFunc as an error.
C29_BackendFailuresFatal ==
    (pc = "returned" /\ output # <<>>) =>
        /\ output[1].loadErr # ""
            => ~output[1].processed /\ output[1].result # "" /\ calls = <<>>
        /\ (output[1].processed /\ output[1].processErr = "") => output[1].saved
        /\ output[1].saveErr # "" => output[1].result # ""

----------------------------------------------------------------------------
(* C30 *)

\* The provider-entries of state s whose type is that of resource r.
EntriesFor(s, r) ==
    {p \in 1..Len(s.Providers) : s.Providers[p].Type = Provider(r.Type)}

----------------------------------------------------------------------------
(* C31 *)

\* The store-entries of state s with exactly the StoreConfig c.
EntriesWith(s, c) == {k \in 1..Len(s.Stores) : s.Stores[k].StoreConfig = c}

\* The positions in a list of secrets that hold the path of a secret.
AtPath(secs, secret) == {j \in 1..Len(secs) : secs[j].Path = secret.Path}

\* C31: after any sequence of AddSecret and RemoveSecret calls no store-entry
\* holds two secrets of one Path; AddSecret of a Path the entry holds puts the
\* secret at the position of that Path and leaves the number of secrets as it
\* was, AddSecret of another Path appends the secret, and AddSecret for a
\* StoreConfig without an entry appends an entry that holds the secret.
C31_SecretPathsUnique ==
    (pc = "secrets") =>
        /\ \A k \in 1..Len(state.Stores) :
            \A a, b \in 1..Len(state.Stores[k].Secrets) :
                state.Stores[k].Secrets[a].Path = state.Stores[k].Secrets[b].Path
                    => a = b
        /\ (input # <<>> /\ input[1].fn = "AddSecret") =>
            LET S == input[1].state
                c == input[1].config
                sec == input[1].secret
            IN  IF EntriesWith(S, c) = {}
                THEN /\ Len(state.Stores) = Len(S.Stores) + 1
                     /\ state.Stores[Len(state.Stores)]
                            = [StoreConfig |-> c, Secrets |-> <<sec>>]
                     /\ \A k \in 1..Len(S.Stores) : state.Stores[k] = S.Stores[k]
                ELSE LET e == CHOOSE k \in EntriesWith(S, c) : TRUE
                         old == S.Stores[e].Secrets
                         new == state.Stores[e].Secrets
                     IN  /\ Len(state.Stores) = Len(S.Stores)
                         /\ \A k \in 1..Len(S.Stores) :
                                k # e => state.Stores[k] = S.Stores[k]
                         /\ IF AtPath(old, sec) # {}
                            THEN /\ Len(new) = Len(old)
                                 /\ \A j \in 1..Len(old) :
                                        new[j] = IF j \in AtPath(old, sec)
                                                 THEN sec ELSE old[j]
                            ELSE new = Append(old, sec)

\* C31 witness: AddSecret has replaced a secret of its path, with another
\* Expiration, in an entry that holds a second secret.
C31_Witness ==
    /\ pc = "secrets"
    /\ input # <<>> /\ input[1].fn = "AddSecret"
    /\ \E k \in EntriesWith(input[1].state, input[1].config) :
        /\ Len(input[1].state.Stores[k].Secrets) >= 2
        /\ \E j \in AtPath(input[1].state.Stores[k].Secrets, input[1].secret) :
            /\ input[1].state.Stores[k].Secrets[j] # input[1].secret
            /\ state.Stores[k].Secrets[j] = input[1].secret

----------------------------------------------------------------------------
(* C32 *)

\* Two StoreConfigs of equal Type, equal Name and logically equal Config.
SameStore(c, d) ==
    c.Type = d.Type /\ c.Name = d.Name /\ isEqualConfig(c.Config, d.Config)

\* C32: AddSecret and RemoveSecret find the store-entry of a StoreConfig by
\* equal Type, equal Name and logically equal Config: no two store-entries of
\* a state have such StoreConfigs, AddSecret for a StoreConfig that an entry
\* matches in this way appends no entry, and RemoveSecret for it leaves no
\* secret of the path in the entry.
C32_StoreIdentityLogical ==
    (pc = "secrets") =>
        /\ \A k, l \in 1..Len(state.Stores) :
            SameStore(state.Stores[k].StoreConfig, state.Stores[l].StoreConfig)
                => k = l
        /\ (input # <<>>) =>
            \A k \in 1..Len(input[1].state.Stores) :
                SameStore(input[1].state.Stores[k].StoreConfig, input[1].config) =>
                    /\ Len(state.Stores) = Len(input[1].state.Stores)
                    /\ input[1].fn = "RemoveSecret"
                        => AtPath(state.Stores[k].Secrets, input[1].secret) = {}

----------------------------------------------------------------------------
(* C33 *)

\* C33: a resource is valid for a request only when the time of the run is
\* earlier than its Expiration minus the effective rotation window: when
\* Process returns, Create was called for every processed request that had no
\* row of its key, not deposed and of a logically equal Config, with more
\* than the window left, the row at exactly Expiration minus the window
\* included.
C33_StrictBoundary ==
    Returned =>
        \A x \in Positions(config) :
            LET K == RequestKey(config, x)
                r == RequestAt(config, x)
            IN  (/\ Processed(config, x)
                 /\ \A y \in RowsOfKey(loaded, K) : ~ValidFor(r, Row(loaded, y)))
                => CallsFor("Create", K) # {}

----------------------------------------------------------------------------
(* C34 *)

\* C34: when a second pass over the same State object returns, every row the
\* first pass left in use and not deposed, whose provider is registered and
\* whose key no request of the second configuration has, was destroyed and is
\* no longer in the state.
C34_InUseRecomputed ==
    (again = "same" /\ Returned) =>
        \A y \in Rows(loaded) :
            (/\ Row(loaded, y).InUse
             /\ ~Row(loaded, y).Deposed
             /\ Provider(Row(loaded, y).Type) \in providers
             /\ \A x \in Positions(config) :
                    RequestKey(config, x) # KeyOf(Row(loaded, y)))
            => /\ CallsFor("Destroy", KeyOf(Row(loaded, y))) # {}
               /\ RowsOfKey(state, KeyOf(Row(loaded, y))) = {}

----------------------------------------------------------------------------
(* C35 *)

\* The secrets of the loaded state that were written for a row: those of the
\* store-entries with the alias of the row's store whose ResourceID is the
\* row's ID.
SecretsOf(row) ==
    {x \in Secrets(loaded) :
        /\ Alias(loaded.Stores[x[1]].StoreConfig) = row.Store
        /\ SecretAt(loaded, x).ResourceID = row.ID}

\* C35: when Process returns after it destroyed a row of the loaded state
\* that no request of the configuration asks for in that store any more, it
\* has called Delete for every secret written for that row in a store whose
\* type is registered, and the state holds none of them, whatever rows of the
\* same ID other stores keep.
C35_SecretsPerStore ==
    Returned =>
        \A y \in Rows(loaded) :
            LET row == Row(loaded, y)
            IN  (/\ CallsFor("Destroy", KeyOf(row)) # {}
                 /\ RowsOfKey(state, KeyOf(row)) = {}
                 /\ \A x \in Positions(config) :
                        \/ config.Requests[x[1]].Store # row.Store
                        \/ RequestAt(config, x).Name # row.ID
                 /\ \A z \in Rows(loaded) :
                        (Row(loaded, z).Store = row.Store /\ Row(loaded, z).ID = row.ID)
                        => Row(loaded, z).Type = row.Type)
                => \A x \in SecretsOf(row) :
                    loaded.Stores[x[1]].StoreConfig.Type \in stores
                    => /\ \E n \in 1..Len(calls) :
                            /\ calls[n].op = "Delete"
                            /\ calls[n].store = row.Store
                            /\ calls[n].path = SecretAt(loaded, x).Path
                       /\ \A z \in Secrets(state) :
                            state.Stores[z[1]].StoreConfig = loaded.Stores[x[1]].StoreConfig
                            => SecretAt(state, z).Path # SecretAt(loaded, x).Path

----------------------------------------------------------------------------
(* C36 *)

\* C36: for every valid configuration Process goes on past the validation
\* and returns nil. A configuration is valid when Validate, called on it as
\* it was parsed, returns no error; Process then does not return
\* "invalid config".
C36_ProcessCompletes ==
    (/\ input # <<>>
     /\ input[1].fn = "Process"
     /\ v1Validate(input[1].config) = "")
    => output[1] = ""

----------------------------------------------------------------------------
(* C37 *)

\* The place of an integration ID in the configured list, and the ID that
\* follows it cyclically.
PlaceOf(id) == CHOOSE k \in 1..Len(IntegrationIDs) : IntegrationIDs[k] = id
NextID(id) == IntegrationIDs[(PlaceOf(id) % Len(IntegrationIDs)) + 1]

\* A call of Rotator.CreateInstallationToken has returned.
RotatorReturned == pc = "ready" /\ output # <<>>

\* C37: in one call of Rotator.CreateInstallationToken the loop makes at most
\* len(apps) iterations and visits each app at most once, in the cyclic order
\* of the list; an app that returned an error is followed by the next app;
\* the call returns the token of the first app that returned one, and the
\* error "unable to retrieve token" when every app was called without a token
\* or bypassed.
C37_EachAppOnce ==
    (pc \in {"ready", "loop"}) =>
        /\ Len(calls) <= Len(apps)
        /\ \A a, b \in 1..Len(calls) : calls[a].app = calls[b].app => a = b
        /\ \A a \in 1..(Len(calls) - 1) :
            /\ calls[a].kind # "token"
            /\ calls[a + 1].app = NextID(calls[a].app)
        /\ RotatorReturned =>
            /\ (\E a \in 1..Len(calls) : calls[a].kind = "token")
                => /\ output[1].err = ""
                   /\ output[1].token # <<>>
                   /\ output[1].token[1].app = calls[Len(calls)].app
            /\ (/\ Len(calls) = Len(apps)
                /\ \A a \in 1..Len(calls) : calls[a].kind # "token")
                => /\ output[1].err = "unable to retrieve token"
                   /\ output[1].token = <<>>
            /\ output[1].err = "unable to retrieve token" => Len(calls) = Len(apps)

\* C37 witness: a call returned the token of the third app after the first
\* returned a rate limit error and the second another error.
C37_Witness ==
    /\ RotatorReturned
    /\ Len(calls) = 3
    /\ calls[1].kind = "rateLimit" /\ calls[2].kind = "error"
    /\ calls[3].kind = "token"
    /\ output[1].err = ""
    /\ output[1].token[1].app = calls[3].app

----------------------------------------------------------------------------
(* C38 *)

\* C38: the loop does not call an app whose rate limit error has a reset time
\* still to come, and it calls, and does not bypass, an app whose reset time
\* has passed.
C38_RateLimitedBypassed ==
    (pc \in {"ready", "loop"}) =>
        \A a \in 1..Len(calls) :
            calls[a].limited # <<>> =>
                IF calls[a].limited[1] > calls[a].at
                THEN calls[a].op = "bypass"
                ELSE calls[a].op = "call"

----------------------------------------------------------------------------
(* C39 *)

\* The call of Rotator.CreateInstallationToken in progress, or the last one,
\* found a valid token on the head app and queried its rate limits.
HeadChecked ==
    /\ pc \in {"ready", "loop"}
    /\ input # <<>>
    /\ input[1].fn = "CreateInstallationToken"
    /\ input[1].checked

\* C39: when the head app holds a valid token its rate limits are queried; if
\* the query fails the call returns an error, no app is visited and the list
\* is as it was; if the remaining quota is below 50 the first app the loop
\* visits is the one after the head; if it is 50 or more the first app the
\* loop visits, and calls, is the head, and a token it returns is the result.
C39_HeadRateLimitCheck ==
    HeadChecked =>
        LET head == input[1].apps[1].integrationID
            limits == input[1].limits[1]
        IN  /\ limits.err =>
                /\ pc = "ready"
                /\ output # <<>> /\ output[1].err # "" /\ output[1].token = <<>>
                /\ calls = <<>>
                /\ apps = input[1].apps
            /\ (~limits.err /\ limits.Remaining < 50) =>
                /\ calls = <<>> => apps = rotate(input[1].apps)
                /\ calls # <<>> => calls[1].app = NextID(head)
            /\ (~limits.err /\ limits.Remaining >= 50) =>
                /\ calls = <<>> => apps = input[1].apps
                /\ calls # <<>> =>
                    /\ calls[1].app = head
                    /\ calls[1].op = "call"
                    /\ calls[1].kind = "token" =>
                        /\ output # <<>>
                        /\ output[1].token # <<>>
                        /\ output[1].token[1].app = head

\* C39 witness: the head app had a valid token and 49 left; the call returned
\* the token of the app after it.
C39_Witness ==
    /\ HeadChecked
    /\ RotatorReturned
    /\ ~input[1].limits[1].err
    /\ input[1].limits[1].Remaining = 49
    /\ output[1].err = ""
    /\ output[1].token[1].app = NextID(input[1].apps[1].integrationID)
    /\ apps[1].integrationID # input[1].apps[1].integrationID

----------------------------------------------------------------------------
(* C40 *)

\* The integration IDs of the list, head first.
IDs(as) == [k \in 1..Len(as) |-> as[k].integrationID]

\* The configured list shifted cyclically by k places.
Shifted(k) ==
    [j \in 1..Len(IntegrationIDs) |->
        IntegrationIDs[((j - 1 + k) % Len(IntegrationIDs)) + 1]]

\* C40: the rotator always holds the configured apps in their cyclic order,
\* and after a call that returned a token the app that issued it is the head
\* of the list, with that token and without a rate limit error.
C40_RotationPermutes ==
    (pc \in {"ready", "loop"}) =>
        /\ \E k \in 0..(Len(IntegrationIDs) - 1) : IDs(apps) = Shifted(k)
        /\ (RotatorReturned /\ output[1].err = "") =>
            /\ apps[1].integrationID = output[1].token[1].app
            /\ apps[1].token = output[1].token
            /\ apps[1].rateLimitError = <<>>

\* C40 witness: a call returned the token of an app that is not the first
\* configured one, while another app has a rate limit error.
C40_Witness ==
    /\ RotatorReturned
    /\ output[1].err = ""
    /\ apps[1].integrationID # IntegrationIDs[1]
    /\ apps[1].token = output[1].token
    /\ \E k \in 2..Len(apps) : apps[k].rateLimitError # <<>>

====
